---- MODULE Spec2Model ----
(***************************************************************************)
(* A model of moul.io/zapfilter (src/zapfilter.go): the rule parser        *)
(* ParseRules, the namespace matcher ByNamespaces with its match cache,    *)
(* the filter combinators and the filteringCore decorator.                 *)
(*                                                                         *)
(* Go strings are sequences of one-character strings.  A FilterFunc is a   *)
(* tree (a record with a kind); calling it is the operator Call, which     *)
(* threads the match caches of the namespace closures it contains and      *)
(* reports a Go panic as ok = FALSE.                                       *)
(***************************************************************************)
EXTENDS Integers, Sequences, FiniteSets

VARIABLES
    input,      \* the string handed to ParseRules / ByNamespaces
    pc,         \* "start", "parsed" (a filter was returned) or "failed"
    filter,     \* the FilterFunc the caller holds
    err,        \* the error ParseRules returned
    matchMap,   \* closure id -> the closure's matchMap (logger name -> bool)
    core,       \* the filteringCore, once built
    nextLevel,  \* the level at which the downstream core is enabled
    development,\* whether the zap logger on the core has the Development option
    sink,       \* what the downstream core's Write received, in order
    hist,       \* the Write calls made on the core, with the filter's verdicts
    last,       \* the last call made and what it returned
    mutex,      \* the goroutine holding the namespace closure's mutex, or 0
    threads,    \* the goroutines calling the namespace closure concurrently
    child,      \* the filteringCore core.With(fields) returned, once made
    childSink,  \* what the Write of the downstream's With(fields) core received
    outer,      \* a filteringCore built on the filteringCore core, once built
    evals,      \* the calls of filters the last logging call made, in order
    locks,      \* rule -> the goroutine holding the mutex of the rule's closure, or 0
    calls       \* the goroutines calling the filter of a rule string concurrently

\* The variables of the derived and chained cores, and of the concurrent
\* calls of a parsed filter.
ext == <<child, childSink, outer, evals, locks, calls>>

vars == <<input, pc, filter, err, matchMap, core, nextLevel, development, sink, hist, last,
          mutex, threads, child, childSink, outer, evals, locks, calls>>

-----------------------------------------------------------------------------
(* Strings *)

\* The empty Go string.
Empty == <<>>

\* unicode.IsSpace, the test strings.Fields and strings.TrimSpace apply to each
\* character: the ASCII spaces \t \n \v \f \r and the space, then U+0085,
\* U+00A0 and U+1680.  (The further spaces of Unicode, U+2000..U+200A, U+2028,
\* U+2029, U+202F, U+205F and U+3000, are no characters a string literal of
\* this module can hold; no input of the specifications has them.)
AsciiSpace == {" ", "\t", "\n", "", "\f", "\r"}

UnicodeSpace == {"", " ", " "}

IsSpace(c) == c \in AsciiSpace \cup UnicodeSpace

\* s[i:] and s[:i] of Go, with 0-based i.
From(s, i) == SubSeq(s, i + 1, Len(s))
Upto(s, i) == SubSeq(s, 1, i)

\* strings.Index(s, c) for a one-character separator: 0-based, -1 if absent.
IndexOf(s, c) ==
    IF \E i \in 1..Len(s) : s[i] = c
    THEN (CHOOSE i \in 1..Len(s) : s[i] = c /\ \A j \in 1..(i - 1) : s[j] # c) - 1
    ELSE 0 - 1

\* strings.Split(s, sep) for a one-character separator: always at least one
\* part; Split("", sep) is one empty string.
RECURSIVE Split(_, _)
SplitAt(s, sep, i) ==
    IF i < 0 THEN <<s>> ELSE <<Upto(s, i)>> \o Split(From(s, i + 1), sep)

Split(s, sep) == SplitAt(s, sep, IndexOf(s, sep))

\* strings.SplitN(s, sep, 2): split at the first separator only.
SplitN2At(s, i) == IF i < 0 THEN <<s>> ELSE <<Upto(s, i), From(s, i + 1)>>

\* strings.Split where the code has strings.SplitN(.., 2).
SplitEvery(s, sep) == Split(s, sep)

SplitN2(s, sep) == SplitN2At(s, IndexOf(s, sep))

\* strings.Fields(s): the maximal runs of non-space characters.
\* FieldLen is the length of the run s starts with.
FieldLen(s) ==
    IF \E i \in 1..Len(s) : IsSpace(s[i])
    THEN (CHOOSE i \in 1..Len(s) : IsSpace(s[i]) /\ \A j \in 1..(i - 1) : ~IsSpace(s[j])) - 1
    ELSE Len(s)

RECURSIVE Fields(_)
FieldsAt(s, n) == <<Upto(s, n)>> \o Fields(From(s, n))

Fields(s) ==
    IF s = Empty THEN <<>>
    ELSE IF IsSpace(s[1]) THEN Fields(Tail(s))
    ELSE FieldsAt(s, FieldLen(s))

\* strings.TrimSpace(s).
RECURSIVE TrimSpace(_)
TrimSpace(s) ==
    IF s = Empty THEN s
    ELSE IF IsSpace(s[1]) THEN TrimSpace(Tail(s))
    ELSE IF IsSpace(s[Len(s)]) THEN TrimSpace(Upto(s, Len(s) - 1))
    ELSE s

UpperCase == <<"A","B","C","D","E","F","G","H","I","J","K","L","M",
               "N","O","P","Q","R","S","T","U","V","W","X","Y","Z">>
LowerCase == <<"a","b","c","d","e","f","g","h","i","j","k","l","m",
               "n","o","p","q","r","s","t","u","v","w","x","y","z">>

\* strings.ToLower(s) on ASCII.
ToLower(s) ==
    [i \in 1..Len(s) |->
        IF \E k \in 1..Len(UpperCase) : UpperCase[k] = s[i]
        THEN LowerCase[CHOOSE k \in 1..Len(UpperCase) : UpperCase[k] = s[i]]
        ELSE s[i]]

\* The %q verb of fmt on a string of printable ASCII: the string in double
\* quotes, with a backslash before each double quote and each backslash.
RECURSIVE QuoteBody(_)
QuoteBody(s) ==
    IF s = Empty THEN Empty
    ELSE (IF s[1] \in {"\"", "\\"} THEN <<"\\", s[1]>> ELSE <<s[1]>>) \o QuoteBody(Tail(s))

Quote(s) == <<"\"">> \o QuoteBody(s) \o <<"\"">>

-----------------------------------------------------------------------------
(* path.Match of the Go standard library, as ByNamespaces uses it *)

\* The printable ASCII characters in code order (the backquote left out): Ord
\* is the order the ranges of a character class compare by.
Ascii == <<" ", "!", "\"", "#", "$", "%", "&", "'", "(", ")", "*", "+", ",", "-", ".", "/",
           "0", "1", "2", "3", "4", "5", "6", "7", "8", "9", ":", ";", "<", "=", ">", "?",
           "@", "A", "B", "C", "D", "E", "F", "G", "H", "I", "J", "K", "L", "M", "N", "O",
           "P", "Q", "R", "S", "T", "U", "V", "W", "X", "Y", "Z", "[", "\\", "]", "^", "_",
           "a", "b", "c", "d", "e", "f", "g", "h", "i", "j", "k", "l", "m", "n", "o",
           "p", "q", "r", "s", "t", "u", "v", "w", "x", "y", "z", "{", "|", "}", "~">>

Ord(c) == IF \E k \in 1..Len(Ascii) : Ascii[k] = c
          THEN CHOOSE k \in 1..Len(Ascii) : Ascii[k] = c
          ELSE 0

\* getEsc: one character of a class, possibly escaped.  It fails on an empty
\* rest, on '-' or ']' in first place, on a trailing backslash and when
\* nothing follows the character.
BadEsc == [ok |-> FALSE, r |-> "", rest |-> Empty]

EscChar(c) == IF Len(c) < 2 THEN BadEsc ELSE [ok |-> TRUE, r |-> c[1], rest |-> Tail(c)]

GetEsc(chunk) ==
    IF chunk = Empty \/ chunk[1] \in {"-", "]"} THEN BadEsc
    ELSE EscChar(IF chunk[1] = "\\" THEN Tail(chunk) ELSE chunk)

\* The ranges of a character class, from after the '[' and the '^', up to
\* the closing ']' (which closes the class once a range was read).  RangeLo
\* and RangeHi are the two getEsc calls of one range.
BadClass == [ok |-> FALSE, ranges |-> <<>>, rest |-> Empty]

RECURSIVE ClassRanges(_, _)
RangeHi(lo, hi, ranges) ==
    IF ~hi.ok THEN BadClass
    ELSE ClassRanges(hi.rest, Append(ranges, <<lo.r, hi.r>>))

RangeLo(lo, ranges) ==
    IF ~lo.ok THEN BadClass
    ELSE IF lo.rest[1] = "-" THEN RangeHi(lo, GetEsc(Tail(lo.rest)), ranges)
    ELSE ClassRanges(lo.rest, Append(ranges, <<lo.r, lo.r>>))

ClassRanges(chunk, ranges) ==
    IF chunk # Empty /\ chunk[1] = "]" /\ Len(ranges) > 0
    THEN [ok |-> TRUE, ranges |-> ranges, rest |-> Tail(chunk)]
    ELSE RangeLo(GetEsc(chunk), ranges)

\* The elements of a pattern: '*', '?', a character (a backslash quotes the
\* next one), a class, or "bad" where the pattern is malformed.
Elem(kind, c, negated, ranges) ==
    [kind |-> kind, c |-> c, negated |-> negated, ranges |-> ranges]

BadElem == Elem("bad", "", FALSE, <<>>)

RECURSIVE Elems(_)
ClassElem(negated, cl) ==
    IF ~cl.ok THEN <<BadElem>>
    ELSE <<Elem("class", "", negated, cl.ranges)>> \o Elems(cl.rest)

Elems(pattern) ==
    IF pattern = Empty THEN <<>>
    ELSE IF pattern[1] = "*" THEN <<Elem("star", "", FALSE, <<>>)>> \o Elems(Tail(pattern))
    ELSE IF pattern[1] = "?" THEN <<Elem("any", "", FALSE, <<>>)>> \o Elems(Tail(pattern))
    ELSE IF pattern[1] = "\\" THEN
        IF Len(pattern) = 1 THEN <<BadElem>>
        ELSE <<Elem("char", pattern[2], FALSE, <<>>)>> \o Elems(From(pattern, 2))
    ELSE IF pattern[1] = "[" THEN
        IF Len(pattern) > 1 /\ pattern[2] = "^"
        THEN ClassElem(TRUE, ClassRanges(From(pattern, 2), <<>>))
        ELSE ClassElem(FALSE, ClassRanges(From(pattern, 1), <<>>))
    ELSE <<Elem("char", pattern[1], FALSE, <<>>)>> \o Elems(Tail(pattern))

\* Whether the element takes the character c of the name: '?' takes no '/',
\* a class takes the characters of its ranges, '/' among them.
InRange(c, range) == Ord(range[1]) <= Ord(c) /\ Ord(c) <= Ord(range[2])

Takes(e, c) ==
    CASE e.kind = "char" -> c = e.c
      [] e.kind = "any" -> c # "/"
      [] e.kind = "class" -> (\E k \in 1..Len(e.ranges) : InRange(c, e.ranges[k])) # e.negated
      [] OTHER -> FALSE

\* scanChunk: the stars the pattern starts with, the chunk of elements up to
\* the next star, and the rest of the pattern.
StarLen(es) ==
    IF \E i \in 1..Len(es) : es[i].kind # "star"
    THEN (CHOOSE i \in 1..Len(es) : es[i].kind # "star" /\ \A j \in 1..(i - 1) : es[j].kind = "star") - 1
    ELSE Len(es)

ChunkLen(es) ==
    IF \E i \in 1..Len(es) : es[i].kind = "star"
    THEN (CHOOSE i \in 1..Len(es) : es[i].kind = "star" /\ \A j \in 1..(i - 1) : es[j].kind # "star") - 1
    ELSE Len(es)

ChunkOf(star, es, n) == [star |-> star, chunk |-> Upto(es, n), rest |-> From(es, n)]

scanChunk(es) ==
    ChunkOf(StarLen(es) > 0, From(es, StarLen(es)), ChunkLen(From(es, StarLen(es))))

\* matchChunk: the chunk matched at the start of s, one character of s for
\* each element; rest is what of s remains.
NoMatch == [ok |-> FALSE, rest |-> Empty]

RECURSIVE matchChunk(_, _)
matchChunk(chunk, s) ==
    IF chunk = <<>> THEN [ok |-> TRUE, rest |-> s]
    ELSE IF s = Empty \/ ~Takes(chunk[1], s[1]) THEN NoMatch
    ELSE matchChunk(Tail(chunk), Tail(s))

\* The loop of path.Match over the chunks.  A chunk is looked for at the
\* current place of the name first; after a star it is then looked for
\* behind 1, 2, ... characters, none of them a '/', and the first place where
\* it matches is kept for good: a later chunk that fails does not bring the
\* search back.  The last chunk has to end the name.  A pattern that ends in
\* a star matches what remains if it holds no '/'.  (sc and t are bound by a
\* quantifier over one value, the result of the call, computed once.)
RECURSIVE Glob(_, _)
RECURSIVE GlobSkip(_, _, _)
GlobSkipAt(sc, name, i, t) ==
    IF t.ok /\ ~(sc.rest = <<>> /\ t.rest # Empty) THEN Glob(sc.rest, t.rest)
    ELSE GlobSkip(sc, name, i + 1)

GlobSkip(sc, name, i) ==
    IF i < Len(name) /\ name[i + 1] # "/"
    THEN \E t \in {matchChunk(sc.chunk, From(name, i + 1))} : GlobSkipAt(sc, name, i, t)
    ELSE FALSE

GlobHere(sc, name, t) ==
    IF t.ok /\ (t.rest = Empty \/ sc.rest # <<>>) THEN Glob(sc.rest, t.rest)
    ELSE sc.star /\ GlobSkip(sc, name, 0)

GlobChunk(sc, name) ==
    IF sc.star /\ sc.chunk = <<>> THEN \A i \in 1..Len(name) : name[i] # "/"
    ELSE \E t \in {matchChunk(sc.chunk, name)} : GlobHere(sc, name, t)

Glob(es, name) ==
    IF es = <<>> THEN name = Empty
    ELSE \E sc \in {scanChunk(es)} : GlobChunk(sc, name)

\* A match that takes a malformed pattern to match every name.
MatchElemsLax(es, name) == (\E k \in 1..Len(es) : es[k].kind = "bad") \/ Glob(es, name)

\* A malformed pattern is ErrBadPattern, with matched = false.
MatchElems(es, name) == (\A k \in 1..Len(es) : es[k].kind # "bad") /\ Glob(es, name)

\* matched, _ := path.Match(pattern, name): the error is dropped by the caller.
Match(pattern, name) == \E es \in {Elems(pattern)} : MatchElems(es, name)

-----------------------------------------------------------------------------
(* Levels and filters *)

\* The levels of zapcore, with zapcore's values.
DebugLevel == 0 - 1
InfoLevel == 0
WarnLevel == 1
ErrorLevel == 2
DPanicLevel == 3
PanicLevel == 4
FatalLevel == 5

allLevels == <<DebugLevel, InfoLevel, WarnLevel, ErrorLevel, DPanicLevel, PanicLevel, FatalLevel>>

\* A FilterFunc value: the function's kind and what its closure captured.
MkFilter(kind, level, subs, patterns, id) ==
    [kind |-> kind, level |-> level, subs |-> subs, patterns |-> patterns, id |-> id]

\* The nil FilterFunc.
NilFilter == MkFilter("nil", 0, <<>>, <<>>, 0)

alwaysFalseFilter == MkFilter("alwaysFalseFilter", 0, <<>>, <<>>, 0)

\* A FilterFunc written by the caller: it admits the entries that come with
\* fields.
FieldsFilter == MkFilter("FieldsFilter", 0, <<>>, <<>>, 0)

alwaysTrueFilter == MkFilter("alwaysTrueFilter", 0, <<>>, <<>>, 0)

ExactLevel(level) == MkFilter("ExactLevel", level, <<>>, <<>>, 0)

MinimumLevel(level) == MkFilter("MinimumLevel", level, <<>>, <<>>, 0)

Any(filters) == MkFilter("Any", 0, filters, <<>>, 0)

Reverse(f) == MkFilter("Reverse", 0, <<f>>, <<>>, 0)

All(filters) == MkFilter("All", 0, filters, <<>>, 0)

\* The edge case optimization of ByNamespaces: empty patterns are skipped.
HasIncludeWildcard(patterns) ==
    \E i \in 1..Len(patterns) : patterns[i] # Empty /\ patterns[i] = <<"*">>

HasExclude(patterns) ==
    \E i \in 1..Len(patterns) : patterns[i] # Empty /\ patterns[i][1] = "-"

\* ByNamespaces(input); id names the mutex and matchMap the returned closure
\* captures.
NamespacesFilter(patterns, id) ==
    IF HasIncludeWildcard(patterns) /\ ~HasExclude(patterns)
    THEN alwaysTrueFilter
    ELSE MkFilter("ByNamespaces", 0, <<>>, patterns, id)

ByNamespaces(in, id) ==
    IF in = Empty THEN alwaysFalseFilter ELSE NamespacesFilter(Split(in, ","), id)

\* One turn of the closure's loop over the patterns.  s holds matchInclude
\* and matchExclude; ok = FALSE is the panic of pattern[0] on an empty pattern.
Matched(exclude, s, matched) ==
    IF exclude THEN [s EXCEPT !.matchExclude = matched]
    ELSE [s EXCEPT !.matchInclude = matched]

ScanStep(pattern, name, s) ==
    IF ~s.ok THEN s
    ELSE IF pattern = Empty THEN [s EXCEPT !.ok = FALSE]
    ELSE IF pattern[1] = "-" /\ s.matchExclude THEN s
    ELSE IF pattern[1] # "-" /\ s.matchInclude THEN s
    ELSE Matched(pattern[1] = "-", s,
                 Match(IF pattern[1] = "-" THEN Tail(pattern) ELSE pattern, name))

RECURSIVE ScanFrom(_, _, _, _)
ScanFrom(patterns, i, name, s) ==
    IF i > Len(patterns) THEN s
    ELSE ScanFrom(patterns, i + 1, name, ScanStep(patterns[i], name, s))

ScanPatterns(patterns, name) ==
    ScanFrom(patterns, 1, name, [ok |-> TRUE, matchInclude |-> FALSE, matchExclude |-> FALSE])

\* matchMap[key] = value on a Go map.
MapPut(m, key, value) == [k \in DOMAIN m \cup {key} |-> IF k = key THEN value ELSE m[k]]

\* A call of the closure ByNamespaces returned, under its mutex, on the
\* closure's matchMap m: NsReturn is the return of matchMap[entry.LoggerName],
\* NsStore the store of the verdict after the loop.  A panic in the loop
\* leaves the provisional false in the map (the deferred Unlock releases the
\* mutex).
NsReturn(m, name) == [ok |-> TRUE, val |-> m[name], m |-> m]

NsStore(m, name, s) ==
    IF ~s.ok THEN [ok |-> FALSE, val |-> FALSE, m |-> m]
    ELSE NsReturn(MapPut(m, name, s.matchInclude /\ ~s.matchExclude), name)

NsCall(patterns, name, m) ==
    IF name \in DOMAIN m THEN NsReturn(m, name)
    ELSE NsStore(MapPut(m, name, FALSE), name, ScanPatterns(patterns, name))

\* filter(entry, fields): ok = FALSE is a panic, val the boolean returned, mm
\* the matchMaps afterwards.  The filters of the package do not read the
\* fields; FieldsFilter is a FilterFunc of the caller that does.  Calling the
\* nil FilterFunc panics.
Returned(b, mm) == [ok |-> TRUE, val |-> b, mm |-> mm]

Panicked(mm) == [ok |-> FALSE, val |-> FALSE, mm |-> mm]

RECURSIVE Call(_, _, _, _)
RECURSIVE CallAny(_, _, _, _, _)
RECURSIVE CallAll(_, _, _, _, _, _)

AnyStep(filters, i, entry, fields, r) ==
    IF ~r.ok \/ r.val THEN r ELSE CallAny(filters, i + 1, entry, fields, r.mm)

\* An Any that calls every filter of the list, nil or not.
CallAnyNoSkip(filters, i, entry, fields, mm) ==
    IF i > Len(filters) THEN Returned(FALSE, mm)
    ELSE AnyStep(filters, i, entry, fields, Call(filters[i], entry, fields, mm))

CallAny(filters, i, entry, fields, mm) ==
    IF i > Len(filters) THEN Returned(FALSE, mm)
    ELSE IF filters[i].kind = "nil" THEN CallAny(filters, i + 1, entry, fields, mm)
    ELSE AnyStep(filters, i, entry, fields, Call(filters[i], entry, fields, mm))

AllStep(filters, i, entry, fields, r) ==
    IF ~r.ok \/ ~r.val THEN r ELSE CallAll(filters, i + 1, entry, fields, r.mm, TRUE)

\* An All that is true when no filter of the list is false.
CallAllVacuous(filters, i, entry, fields, mm, atLeastOneSuccessful) ==
    IF i > Len(filters) THEN Returned(TRUE, mm)
    ELSE IF filters[i].kind = "nil"
    THEN CallAll(filters, i + 1, entry, fields, mm, atLeastOneSuccessful)
    ELSE AllStep(filters, i, entry, fields, Call(filters[i], entry, fields, mm))

CallAll(filters, i, entry, fields, mm, atLeastOneSuccessful) ==
    IF i > Len(filters) THEN Returned(atLeastOneSuccessful, mm)
    ELSE IF filters[i].kind = "nil"
    THEN CallAll(filters, i + 1, entry, fields, mm, atLeastOneSuccessful)
    ELSE AllStep(filters, i, entry, fields, Call(filters[i], entry, fields, mm))

\* A Reverse that returns what the filter returned.
NegatedSame(r) == r

Negated(r) == [ok |-> r.ok, val |-> r.ok /\ ~r.val, mm |-> r.mm]

NsCalled(id, mm, r) == [ok |-> r.ok, val |-> r.val, mm |-> [mm EXCEPT ![id] = r.m]]

Call(f, entry, fields, mm) ==
    CASE f.kind = "nil" -> Panicked(mm)
      [] f.kind = "FieldsFilter" -> Returned(Len(fields) > 0, mm)
      [] f.kind = "alwaysFalseFilter" -> Returned(FALSE, mm)
      [] f.kind = "alwaysTrueFilter" -> Returned(TRUE, mm)
      [] f.kind = "ExactLevel" -> Returned(entry.Level = f.level, mm)
      [] f.kind = "MinimumLevel" -> Returned(entry.Level >= f.level, mm)
      [] f.kind = "Any" -> CallAny(f.subs, 1, entry, fields, mm)
      [] f.kind = "All" -> CallAll(f.subs, 1, entry, fields, mm, FALSE)
      [] f.kind = "Reverse" -> Negated(Call(f.subs[1], entry, fields, mm))
      [] f.kind = "ByNamespaces" ->
            NsCalled(f.id, mm, NsCall(f.patterns, entry.LoggerName, mm[f.id]))

-----------------------------------------------------------------------------
(* ParseRules *)

NoError == [msg |-> "", arg |-> Empty]

\* fmt.Errorf(msg) and fmt.Errorf(msg + "%q", arg).
Errorf(msg, arg) == [msg |-> msg, arg |-> arg]

sDebug == <<"d","e","b","u","g">>
sInfo == <<"i","n","f","o">>
sWarn == <<"w","a","r","n">>
sError == <<"e","r","r","o","r">>
sDPanic == <<"d","p","a","n","i","c">>
sPanic == <<"p","a","n","i","c">>
sFatal == <<"f","a","t","a","l">>

Plus(s) == s \o <<"+">>

\* The switch on strings.ToLower(leftPart): the levels the keyword enables,
\* ok = FALSE for the default case.
SetLevels(levels) == [ok |-> TRUE, levels |-> levels]

SwitchKeyword(k) ==
        CASE k \in {Empty, <<"*">>, Plus(sDebug)} ->
                SetLevels({DebugLevel, InfoLevel, WarnLevel, ErrorLevel, DPanicLevel, PanicLevel, FatalLevel})
          [] k = sDebug -> SetLevels({DebugLevel})
          [] k = sInfo -> SetLevels({InfoLevel})
          [] k = Plus(sInfo) ->
                SetLevels({InfoLevel, WarnLevel, ErrorLevel, DPanicLevel, PanicLevel, FatalLevel})
          [] k = sWarn -> SetLevels({WarnLevel})
          [] k = Plus(sWarn) -> SetLevels({WarnLevel, ErrorLevel, DPanicLevel, PanicLevel, FatalLevel})
          [] k = sError -> SetLevels({ErrorLevel})
          [] k = Plus(sError) -> SetLevels({ErrorLevel, DPanicLevel, PanicLevel, FatalLevel})
          [] k = sDPanic -> SetLevels({DPanicLevel})
          [] k = Plus(sDPanic) -> SetLevels({DPanicLevel, PanicLevel, FatalLevel})
          [] k = sPanic -> SetLevels({PanicLevel})
          [] k = Plus(sPanic) -> SetLevels({PanicLevel, FatalLevel})
          [] k \in {sFatal, Plus(sFatal)} -> SetLevels({FatalLevel})
          [] OTHER -> [ok |-> FALSE, levels |-> {}]

\* A switch on leftPart as written.
KeywordLevelsAsWritten(leftPart) == SwitchKeyword(leftPart)

KeywordLevels(leftPart) == SwitchKeyword(ToLower(leftPart))

\* The error of the default case: it formats left, the whole left part.
UnsupportedKeyword(left, leftPart) == Errorf("unsupported keyword: ", Quote(left))

\* The loop over strings.Split(left, ","): enabledLevels, or the error of the
\* first unsupported keyword.
RECURSIVE ParseLeftFrom(_, _, _, _)
LeftStep(left, parts, i, enabledLevels, k) ==
    IF ~k.ok
    THEN [err |-> UnsupportedKeyword(left, parts[i]), enabledLevels |-> {}]
    ELSE ParseLeftFrom(left, parts, i + 1, enabledLevels \cup k.levels)

ParseLeftFrom(left, parts, i, enabledLevels) ==
    IF i > Len(parts) THEN [err |-> NoError, enabledLevels |-> enabledLevels]
    ELSE LeftStep(left, parts, i, enabledLevels, KeywordLevels(parts[i]))

ParseLeft(left) == ParseLeftFrom(left, Split(left, ","), 1, {})

\* The split of a rule into its parts: left stays empty without a separator.
BadSyntax == [err |-> Errorf("bad syntax", Empty), left |-> Empty, right |-> Empty]

RuleParts(parts) ==
    IF Len(parts) = 1 THEN [err |-> NoError, left |-> Empty, right |-> parts[1]]
    ELSE IF Len(parts) # 2 THEN BadSyntax
    ELSE IF parts[1] = Empty \/ parts[2] = Empty THEN BadSyntax
    ELSE [err |-> NoError, left |-> parts[1], right |-> parts[2]]

SplitRule(rule) == RuleParts(SplitN2(rule, ":"))

\* levelFilter = Any(ExactLevel(level), levelFilter) for each enabled level.
\* Go ranges over the map in no fixed order; the levels are taken in
\* ascending order here, and the filter's verdict does not depend on it.
RECURSIVE LevelFilterFrom(_, _, _)
LevelFilterFrom(enabledLevels, i, levelFilter) ==
    IF i > Len(allLevels) THEN levelFilter
    ELSE IF allLevels[i] \in enabledLevels
    THEN LevelFilterFrom(enabledLevels, i + 1, Any(<<ExactLevel(allLevels[i]), levelFilter>>))
    ELSE LevelFilterFrom(enabledLevels, i + 1, levelFilter)

\* "create rule's filter": the rule or-ed into topFilter.
RuleClause(enabledLevels, byNamespaces) ==
    IF Cardinality(enabledLevels) = 7 THEN byNamespaces
    ELSE All(<<LevelFilterFrom(enabledLevels, 1, NilFilter), byNamespaces>>)

RuleFilter(topFilter, enabledLevels, right, id) ==
    Any(<<topFilter, RuleClause(enabledLevels, ByNamespaces(right, id))>>)

\* The loop of ParseRules over the rules; the i-th rule's namespace closure
\* has id i.
RECURSIVE ParseRulesFrom(_, _, _)
\* A loop that returns the filter of the rules before the faulty one with
\* the error.
RuleLevelsKeeps(rules, i, topFilter, right, lv) ==
    IF lv.err # NoError THEN [filter |-> topFilter, err |-> lv.err]
    ELSE ParseRulesFrom(rules, i + 1, RuleFilter(topFilter, lv.enabledLevels, right, i))

RuleLevels(rules, i, topFilter, right, lv) ==
    IF lv.err # NoError THEN [filter |-> NilFilter, err |-> lv.err]
    ELSE ParseRulesFrom(rules, i + 1, RuleFilter(topFilter, lv.enabledLevels, right, i))

RuleSplit(rules, i, topFilter, sp) ==
    IF sp.err # NoError THEN [filter |-> NilFilter, err |-> sp.err]
    ELSE RuleLevels(rules, i, topFilter, sp.right, ParseLeft(sp.left))

RuleTrimmed(rules, i, topFilter, rule) ==
    IF rule = Empty THEN ParseRulesFrom(rules, i + 1, topFilter)
    ELSE RuleSplit(rules, i, topFilter, SplitRule(rule))

ParseRulesFrom(rules, i, topFilter) ==
    IF i > Len(rules) THEN [filter |-> topFilter, err |-> NoError]
    ELSE RuleTrimmed(rules, i, topFilter, TrimSpace(rules[i]))

ParseRules(in) == ParseRulesFrom(Fields(in), 1, NilFilter)

\* MustParseRules(input): ok = FALSE is the panic, whose value is the error
\* of ParseRules.
Must(r) ==
    IF r.err # NoError THEN [ok |-> FALSE, filter |-> NilFilter, panic |-> r.err]
    ELSE [ok |-> TRUE, filter |-> r.filter, panic |-> NoError]

\* A MustParseRules that drops the error.
MustParseRulesQuiet(in) == [ok |-> TRUE, filter |-> ParseRules(in).filter, panic |-> NoError]

MustParseRules(in) == Must(ParseRules(in))

-----------------------------------------------------------------------------
(* filteringCore *)

\* NewFilteringCore(next, filter): next is the downstream core of the model,
\* whose Write appends to sink; the field next of a core holds the fields
\* bound to its downstream core by With, none for the downstream itself.
\* The fields of a call: nil, and a slice of one field.
NoFields == <<>>
SomeFields == <<"field">>

NewFilteringCore(f) ==
    [built |-> TRUE, filter |-> IF f.kind = "nil" THEN alwaysFalseFilter ELSE f,
     next |-> NoFields]

NoCore == [built |-> FALSE, filter |-> NilFilter, next |-> NoFields]

\* core.Check(entry, ce): added says whether the core was added to ce.
Checked(r) == [ok |-> r.ok, added |-> r.ok /\ r.val, mm |-> r.mm]

\* A Check that also asks the downstream core whether the level is enabled.
CoreCheckEnabled(c, entry, mm) ==
    [ok |-> Call(c.filter, entry, NoFields, mm).ok,
     added |-> Call(c.filter, entry, NoFields, mm).ok
               /\ Call(c.filter, entry, NoFields, mm).val /\ entry.Level >= nextLevel,
     mm |-> Call(c.filter, entry, NoFields, mm).mm]

CoreCheck(c, entry, mm) == Checked(Call(c.filter, entry, NoFields, mm))

\* What the downstream core returns from Write or Sync: nil, or an error of
\* its own.
DownError == Errorf("downstream failed", Empty)
DownResults == {NoError, DownError}

\* core.Write(entry, fields) in front of a downstream whose Write receives
\* the entry in snk and returns down: forwarded says whether next.Write ran,
\* res is the error Write returns.
Written(r, entry, snk, down) ==
    IF ~r.ok THEN [ok |-> FALSE, forwarded |-> FALSE, snk |-> snk, mm |-> r.mm,
                   res |-> NoError]
    ELSE IF ~r.val THEN [ok |-> TRUE, forwarded |-> FALSE, snk |-> snk, mm |-> r.mm,
                         res |-> NoError]
    ELSE [ok |-> TRUE, forwarded |-> TRUE, snk |-> Append(snk, entry), mm |-> r.mm,
          res |-> down]

\* A Write that evaluates the filter without the fields.
CoreWriteNoFields(c, entry, fields, mm, snk, down) ==
    Written(Call(c.filter, entry, NoFields, mm), entry, snk, down)

\* A Write that swallows the error of the downstream Write.
CoreWriteSwallows(c, entry, fields, mm, snk, down) ==
    Written(Call(c.filter, entry, fields, mm), entry, snk, NoError)

CoreWrite(c, entry, fields, mm, snk, down) ==
    Written(Call(c.filter, entry, fields, mm), entry, snk, down)

\* core.Sync(): the result of the downstream Sync.
CoreSync(c, down) == down

\* A With that builds the new core on the downstream itself, not on the
\* downstream's With(fields).
CoreWithUnbound(c, fields) == [built |-> TRUE, filter |-> c.filter, next |-> c.next]

\* core.With(fields): a new core on the downstream's With(fields), which is
\* the downstream with the fields bound after those it has, and the filter
\* of core itself (a FilterFunc value: the closure and its matchMap are
\* shared).
CoreWith(c, fields) == [built |-> TRUE, filter |-> c.filter, next |-> c.next \o fields]

\* An Enabled that is false on a core whose filter rejects everything.
CoreEnabledFiltered(c, level, nl) == level >= nl /\ c.filter # alwaysFalseFilter

\* core.Enabled(level): the answer of the downstream core, which logs the
\* levels from nl up.
CoreEnabled(c, level, nl) == level >= nl

\* The terminal behaviour the logger's Check sets up whatever the core's
\* Check gave: ce.Should at PanicLevel and FatalLevel, and at DPanicLevel on
\* a logger with the Development option.  Should turns a nil ce into an entry.
Terminal(level, dev) ==
    level \in {PanicLevel, FatalLevel} \/ (level = DPanicLevel /\ dev)

\* What the logger's Check returns after the core's Check r: nonnil is
\* whether the CheckedEntry is not nil.
LoggerChecked(r, terminal) ==
    [ok |-> r.ok, nonnil |-> r.ok /\ (r.added \/ terminal), mm |-> r.mm]

\* logger.Check(level, "") of a zap logger of the given name on the core c,
\* dev being its Development option: below DPanicLevel the logger returns nil
\* at once when the core is not enabled for the level; otherwise it takes
\* what the core's Check gives on the entry of that level and name, and sets
\* up the terminal behaviour of the level.
LoggerCheck(c, level, name, mm, nl, dev) ==
    IF level < DPanicLevel /\ ~CoreEnabled(c, level, nl)
    THEN [ok |-> TRUE, nonnil |-> FALSE, mm |-> mm]
    ELSE LoggerChecked(CoreCheck(c, [Level |-> level, LoggerName |-> name], mm),
                       Terminal(level, dev))

\* if level >= zapcore.PanicLevel { continue }
Skipped(level) == level >= PanicLevel

\* The Check calls CheckAnyLevel made, with the one of the level r is of.
CheckedAt(checks, level, r) ==
    Append(checks, [level |-> level,
                    verdict |-> IF ~r.ok THEN "panic" ELSE IF r.nonnil THEN "true" ELSE "false"])

\* CheckAnyLevel(logger), from the i-th level of allLevels on; checks are the
\* Check calls made so far.
RECURSIVE CheckAnyFrom(_, _, _, _, _, _, _)
CheckAnyStep(c, name, i, mm, nl, dev, checks, r) ==
    IF ~r.ok THEN [ok |-> FALSE, val |-> FALSE, mm |-> r.mm, checks |-> checks]
    ELSE IF r.nonnil THEN [ok |-> TRUE, val |-> TRUE, mm |-> r.mm, checks |-> checks]
    ELSE CheckAnyFrom(c, name, i + 1, r.mm, nl, dev, checks)

CheckAnyAt(c, name, i, mm, nl, dev, checks, r) ==
    CheckAnyStep(c, name, i, mm, nl, dev, CheckedAt(checks, allLevels[i], r), r)

CheckAnyFrom(c, name, i, mm, nl, dev, checks) ==
    IF i > Len(allLevels) THEN [ok |-> TRUE, val |-> FALSE, mm |-> mm, checks |-> checks]
    ELSE IF Skipped(allLevels[i]) THEN CheckAnyFrom(c, name, i + 1, mm, nl, dev, checks)
    ELSE CheckAnyAt(c, name, i, mm, nl, dev, checks,
                    LoggerCheck(c, allLevels[i], name, mm, nl, dev))

\* logger is the zap logger of that name and Development option on the core c.
CheckAnyLevel(c, name, mm, nl, dev) == CheckAnyFrom(c, name, 1, mm, nl, dev, <<>>)

-----------------------------------------------------------------------------
(* The inputs of the model *)

MaxRules == 2
MaxLevelTokens == 2
MaxPatterns == 2
MaxWrites == 2
MaxThreads == 2
MaxFilters == 2
MaxFaultyRules == 3

RECURSIVE Join(_, _)
Join(parts, sep) ==
    IF Len(parts) = 0 THEN Empty
    ELSE IF Len(parts) = 1 THEN parts[1]
    ELSE parts[1] \o sep \o Join(Tail(parts), sep)

\* The sequences of 1..n elements of S.
SeqsUpTo(S, n) == UNION {[1..k -> S] : k \in 1..n}

sFoo == <<"f","o","o">>
sFooFoo == <<"f","o","o",".","f","o","o">>
sFooBar == <<"f","o","o",".","b","a","r">>
sStar == <<"*">>
sFooStar == <<"f","o","o","*">>
sFooDotStar == <<"f","o","o",".","*">>
sNotFooFoo == <<"-","f","o","o",".","f","o","o">>
sInvalid == <<"i","n","v","a","l","i","d">>

Entry(level, name) == [Level |-> level, LoggerName |-> name]

LevelSet == {allLevels[i] : i \in 1..Len(allLevels)}

\* Logger names: the root logger, a name, two children of it, and a name of
\* another shape.
Names == {Empty, sFoo, sFooFoo, sFooBar, <<"f","/","o">>}

Entries == {Entry(l, n) : l \in LevelSet, n \in Names}

\* The entries the calls of the model are made with.
CallEntries == {Entry(l, n) : l \in {InfoLevel, ErrorLevel}, n \in {Empty, sFoo, sFooFoo}}
CoreEntries == {Entry(l, n) : l \in {DebugLevel, ErrorLevel}, n \in {sFoo, sFooFoo}}
NsEntries == {Entry(InfoLevel, n) : n \in Names}

\* Level keywords: every keyword of the switch, some in upper case, and
\* tokens the switch does not know.
Keywords == <<sDebug, sInfo, sWarn, sError, sDPanic, sPanic, sFatal>>

LevelTokens ==
    {Keywords[i] : i \in 1..7} \cup {Plus(Keywords[i]) : i \in 1..7}
    \cup {Empty, sStar, <<"I","N","F","O">>, <<"W","a","r","n","+">>,
          sInvalid, <<"i","n","f","o","+","+">>, <<"a","\"","b">>}

\* The tokens the lists of several level tokens are made of.
ListTokens == {sInfo, sWarn, Plus(sError), Empty, sInvalid}

LevelLists ==
    LevelTokens \cup {Join(ts, <<",">>) : ts \in SeqsUpTo(ListTokens, MaxLevelTokens)}

\* Namespace specs of the rules.
RuleSpecs == {sStar, sFooStar \o <<",">> \o sNotFooFoo, sFoo \o <<",">>,
              <<"a",":","b">>, Empty}

\* One-rule inputs: a bare namespace spec, or levels ':' namespace spec.
OneRuleInputs ==
    (RuleSpecs \ {Empty}) \cup {l \o <<":">> \o s : l \in LevelLists, s \in RuleSpecs}

\* The rules the inputs of several rules are made of, and their separators.
SomeRules == {sFoo, sInfo \o <<":">> \o sFooStar, Plus(sError) \o <<":">> \o sStar,
              sDebug \o <<":">> \o sFoo \o <<",">>, <<":">> \o sStar}

SeveralRuleInputs ==
    {Join(rs, <<" ">>) : rs \in SeqsUpTo(SomeRules, MaxRules)}
    \cup {Empty, <<" ">>, <<"\t", "\n">>, <<" ">> \o sFoo \o <<"\n", " ">> \o sStar \o <<"\t">>,
          <<"\r">>, <<"\f", " ">>, sFoo \o <<"\r">> \o sStar,
          <<"">> \o sInfo \o <<":">> \o sFoo \o <<"">>}

RuleInputs == OneRuleInputs \cup SeveralRuleInputs

\* The rule strings of the tests of ParseRules and their like, for the core.
CoreInputs ==
    {Empty, <<" ">>, <<"\r">>, sStar, sDebug \o <<":">> \o sStar,
     sInfo \o <<",">> \o sWarn \o <<":">> \o sStar,
     sFooStar \o <<",">> \o sNotFooFoo,
     sError \o <<":">> \o sFooStar \o <<",">> \o sNotFooFoo,
     sStar \o <<":">> \o sFoo \o <<" ">> \o sDebug \o <<":">> \o sFooDotStar
        \o <<" ">> \o sError \o <<":">> \o sStar,
     sFoo \o <<",">>, sInvalid \o <<":">> \o sStar, <<":">> \o sStar}

\* Patterns of the namespace specs given to ByNamespaces.
Patterns == {sStar, sFoo, sFooStar, sFooDotStar, sNotFooFoo,
             <<"-","*",".","f","o","o">>, Empty, <<"-">>, <<"[">>, <<"-","[">>,
             <<"*","[","^","b","]","*","o">>}

NsInputs == {Join(ps, <<",">>) : ps \in SeqsUpTo(Patterns, MaxPatterns)}

-----------------------------------------------------------------------------
(* The program *)

NoCall == [op |-> "none", entry |-> Entry(InfoLevel, Empty), fields |-> NoFields,
           ok |-> TRUE, val |-> FALSE, verdict |-> "none", res |-> NoError, down |-> NoError]

\* What a call of a filter gave: "true", "false" or "panic".
VerdictOf(r) == IF ~r.ok THEN "panic" ELSE IF r.val THEN "true" ELSE "false"

Verdict(f, entry, fields, mm) == VerdictOf(Call(f, entry, fields, mm))

\* A goroutine that is not in a call of the closure.
Idle == [pc |-> "idle", name |-> Empty, i |-> 0, matchInclude |-> FALSE,
         matchExclude |-> FALSE, val |-> FALSE]

Threads == 1..MaxThreads

\* A goroutine that is not in a call of the parsed filter: k is the rule its
\* call is at, ok and val what the closure of that rule gave.
NoEval == [pc |-> "idle", entry |-> Entry(InfoLevel, Empty), k |-> 0, ok |-> TRUE,
           val |-> FALSE]

InitOn(inputs, nextLevels, modes) ==
    /\ input \in inputs
    /\ pc = "start"
    /\ filter = NilFilter
    /\ err = NoError
    /\ matchMap = <<>>
    /\ core = NoCore
    /\ nextLevel \in nextLevels
    /\ development \in modes
    /\ sink = <<>>
    /\ hist = <<>>
    /\ last = NoCall
    /\ mutex = 0
    /\ threads = [t \in Threads |-> Idle]
    /\ child = NoCore
    /\ childSink = <<>>
    /\ outer = NoCore
    /\ evals = <<>>
    /\ locks = [k \in 1..MaxRules |-> 0]
    /\ calls = [t \in Threads |-> NoEval]

\* The state after construction, for a logger without the Development option.
InitWith(inputs, nextLevels) == InitOn(inputs, nextLevels, {FALSE})

\* filter, err := ParseRules(input)
Parsed(r) ==
    /\ filter' = r.filter
    /\ err' = r.err
    /\ pc' = IF r.err = NoError THEN "parsed" ELSE "failed"

DoParseRules ==
    /\ pc = "start"
    /\ Parsed(ParseRules(input))
    /\ matchMap' = [i \in 1..Len(Fields(input)) |-> <<>>]
    /\ UNCHANGED <<ext, input, core, nextLevel, development, sink, hist, last, mutex, threads>>

\* filter := ByNamespaces(input)
DoByNamespaces ==
    /\ pc = "start"
    /\ filter' = ByNamespaces(input, 1)
    /\ pc' = "parsed"
    /\ matchMap' = <<(<<>>)>>
    /\ UNCHANGED <<ext, input, err, core, nextLevel, development, sink, hist, last, mutex,
                   threads>>

\* filter(entry, nil), called by the holder of the filter.
FilterCalled(entry, r) ==
    /\ matchMap' = r.mm
    /\ last' = [op |-> "filter", entry |-> entry, fields |-> NoFields, ok |-> r.ok,
                val |-> r.ok /\ r.val, verdict |-> VerdictOf(r), res |-> NoError,
                down |-> NoError]

DoFilterCall(entry) ==
    /\ pc = "parsed"
    /\ FilterCalled(entry, Call(filter, entry, NoFields, matchMap))
    /\ UNCHANGED <<ext, input, pc, filter, err, core, nextLevel, development, sink, hist, mutex,
                   threads>>

\* core := NewFilteringCore(next, f), on the parsed filter or on a FilterFunc
\* of the caller.
DoNewFilteringCore(f) ==
    /\ pc = "parsed"
    /\ ~core.built
    /\ core' = NewFilteringCore(f)
    /\ UNCHANGED <<ext, input, pc, filter, err, matchMap, nextLevel, development, sink, hist,
                   last, mutex, threads>>

\* core.Check(entry, ce); verdict is what the core's filter gives on the
\* entry and the fields in the state of the call.
CheckCalled(entry, r, verdict) ==
    /\ matchMap' = r.mm
    /\ last' = [op |-> "Check", entry |-> entry, fields |-> NoFields, ok |-> r.ok,
                val |-> r.added, verdict |-> verdict, res |-> NoError, down |-> NoError]

DoCheck(entry) ==
    /\ core.built
    /\ CheckCalled(entry, CoreCheck(core, entry, matchMap),
                   Verdict(core.filter, entry, NoFields, matchMap))
    /\ UNCHANGED <<ext, input, pc, filter, err, core, nextLevel, development, sink, hist, mutex,
                   threads>>

\* core.Write(entry, fields), in front of a downstream whose Write returns
\* down when it is called; res is what Write returned, and down what the
\* downstream Write returned (nil when it was not called).
WriteCalled(entry, fields, r, verdict, down) ==
    /\ matchMap' = r.mm
    /\ sink' = r.snk
    /\ last' = [op |-> "Write", entry |-> entry, fields |-> fields, ok |-> r.ok,
                val |-> r.forwarded, verdict |-> verdict, res |-> r.res,
                down |-> IF verdict = "true" THEN down ELSE NoError]
    /\ hist' = Append(hist, [entry |-> entry, verdict |-> verdict,
                             down |-> IF verdict = "true" THEN down ELSE NoError])

DoWrite(entry, fields, down) ==
    /\ core.built
    /\ Len(hist) < MaxWrites
    /\ WriteCalled(entry, fields, CoreWrite(core, entry, fields, matchMap, sink, down),
                   Verdict(core.filter, entry, fields, matchMap), down)
    /\ UNCHANGED <<ext, input, pc, filter, err, core, nextLevel, development, mutex, threads>>

\* core.Enabled(level)
DoEnabled(level) ==
    /\ core.built
    /\ last' = [op |-> "Enabled", entry |-> Entry(level, Empty), fields |-> NoFields,
                ok |-> TRUE, val |-> CoreEnabled(core, level, nextLevel), verdict |-> "none",
                res |-> NoError, down |-> NoError]
    /\ UNCHANGED <<ext, input, pc, filter, err, matchMap, core, nextLevel, development, sink,
                   hist, mutex, threads>>

\* core.Sync(), in front of a downstream whose Sync returns down.
DoSync(down) ==
    /\ core.built
    /\ last' = [op |-> "Sync", entry |-> Entry(InfoLevel, Empty), fields |-> NoFields,
                ok |-> TRUE, val |-> FALSE, verdict |-> "none",
                res |-> CoreSync(core, down), down |-> down]
    /\ UNCHANGED <<ext, input, pc, filter, err, matchMap, core, nextLevel, development, sink,
                   hist, mutex, threads>>

\* A rule string is parsed, a core built on the filter, and entries checked
\* and written through it, in front of a downstream whose Write returns nil.
Init == InitWith(CoreInputs, {DebugLevel, ErrorLevel})

Next ==
    \/ DoParseRules
    \/ \E f \in {filter, FieldsFilter} : DoNewFilteringCore(f)
    \/ \E e \in {Entry(ErrorLevel, sFoo), Entry(DebugLevel, sFooFoo)} : DoFilterCall(e)
    \/ \E e \in CoreEntries : DoCheck(e)
    \/ \E e \in CoreEntries, fields \in {NoFields, SomeFields} : DoWrite(e, fields, NoError)
    \/ \E l \in {DebugLevel, ErrorLevel} : DoEnabled(l)

Spec == Init /\ [][Next]_vars

\* A core is built on a parsed filter or on a filter of the caller, and
\* entries are written and flushed through it, in front of a downstream whose
\* Write and Sync return nil or fail.
SinkInputs ==
    {sStar, sError \o <<":">> \o sFooStar \o <<",">> \o sNotFooFoo,
     sDebug \o <<":">> \o sFoo \o <<",">>}

InitSink == InitWith(SinkInputs, {DebugLevel})

NextSink ==
    \/ DoParseRules
    \/ \E f \in {filter, FieldsFilter} : DoNewFilteringCore(f)
    \/ \E e \in CoreEntries, fields \in {NoFields, SomeFields}, down \in DownResults :
           DoWrite(e, fields, down)
    \/ \E down \in DownResults : DoSync(down)

SpecSink == InitSink /\ [][NextSink]_vars

\* child := core.With(fields)
DoWith(fields) ==
    /\ core.built
    /\ ~child.built
    /\ child' = CoreWith(core, fields)
    /\ last' = [op |-> "With", entry |-> Entry(InfoLevel, Empty), fields |-> fields,
                ok |-> TRUE, val |-> FALSE, verdict |-> "none", res |-> NoError,
                down |-> NoError]
    /\ UNCHANGED <<input, pc, filter, err, matchMap, core, nextLevel, development, sink, hist,
                   mutex, threads, childSink, outer, evals, locks, calls>>

\* child.Check(entry, ce)
DoChildCheck(entry) ==
    /\ child.built
    /\ matchMap' = CoreCheck(child, entry, matchMap).mm
    /\ last' = [op |-> "child.Check", entry |-> entry, fields |-> NoFields,
                ok |-> CoreCheck(child, entry, matchMap).ok,
                val |-> CoreCheck(child, entry, matchMap).added,
                verdict |-> Verdict(core.filter, entry, NoFields, matchMap),
                res |-> NoError, down |-> NoError]
    /\ UNCHANGED <<ext, input, pc, filter, err, core, nextLevel, development, sink, hist, mutex,
                   threads>>

\* child.Write(entry, fields): the downstream's With(fields) core receives
\* the entry when the filter admits it, and returns nil.
ChildWritten(entry, fields, r, verdict) ==
    /\ matchMap' = r.mm
    /\ childSink' = r.snk
    /\ last' = [op |-> "child.Write", entry |-> entry, fields |-> fields, ok |-> r.ok,
                val |-> r.forwarded, verdict |-> verdict, res |-> r.res, down |-> NoError]

DoChildWrite(entry, fields) ==
    /\ child.built
    /\ Len(hist) + Len(childSink) < MaxWrites
    /\ ChildWritten(entry, fields, CoreWrite(child, entry, fields, matchMap, childSink, NoError),
                    Verdict(core.filter, entry, fields, matchMap))
    /\ UNCHANGED <<input, pc, filter, err, core, nextLevel, development, sink, hist, mutex,
                   threads, child, outer, evals, locks, calls>>

\* A core is built on a parsed filter or on a filter of the caller, a second
\* core is made of it by With, and entries are checked and written through
\* both.
WithEntries == {Entry(DebugLevel, sFoo), Entry(ErrorLevel, sFoo), Entry(ErrorLevel, sFooFoo)}

InitWithCore == InitWith(SinkInputs, {DebugLevel})

NextWith ==
    \/ DoParseRules
    \/ \E f \in {filter, FieldsFilter} : DoNewFilteringCore(f)
    \/ \E fields \in {NoFields, SomeFields} : DoWith(fields)
    \/ \E e \in WithEntries : DoCheck(e)
    \/ \E e \in WithEntries : DoWrite(e, SomeFields, NoError)
    \/ \E e \in WithEntries : DoChildCheck(e)
    \/ \E e \in WithEntries, fields \in {NoFields, SomeFields} : DoChildWrite(e, fields)

SpecWith == InitWithCore /\ [][NextWith]_vars

\* CheckAnyLevel(logger), on a logger of the given name on core.
AnyLevelChecked(name, r) ==
    /\ matchMap' = r.mm
    /\ evals' = r.checks
    /\ last' = [op |-> "CheckAnyLevel", entry |-> Entry(InfoLevel, name), fields |-> NoFields,
                ok |-> r.ok, val |-> r.val, verdict |-> "none", res |-> NoError,
                down |-> NoError]

DoCheckAnyLevel(name) ==
    /\ core.built
    /\ AnyLevelChecked(name, CheckAnyLevel(core, name, matchMap, nextLevel, development))
    /\ UNCHANGED <<input, pc, filter, err, core, nextLevel, development, sink, hist, mutex,
                   threads, child, childSink, outer, locks, calls>>

\* A core is built on a parsed filter and loggers of several names on it are
\* asked whether any level passes.
AnyLevelInputs ==
    {Empty, sStar, sPanic \o <<":">> \o sStar, Plus(sPanic) \o <<":">> \o sStar,
     sDPanic \o <<":">> \o sFooStar, Plus(sWarn) \o <<":">> \o sFooDotStar,
     sDebug \o <<":">> \o sFooDotStar \o <<" ">> \o sInfo \o <<":">> \o sFooStar,
     sInfo \o <<":">> \o sFoo \o <<" ">> \o sDebug \o <<":">> \o sFoo \o <<",">>,
     sError \o <<":">> \o sFoo \o <<",">> \o <<" ">> \o sDPanic \o <<":">> \o sStar}

AnyLevelNames == {Empty, sFoo, sFooFoo}

InitAnyLevel == InitOn(AnyLevelInputs, {DebugLevel, ErrorLevel}, BOOLEAN)

NextAnyLevel ==
    \/ DoParseRules
    \/ DoNewFilteringCore(filter)
    \/ \E n \in AnyLevelNames : DoCheckAnyLevel(n)
    \/ \E l \in {DebugLevel, ErrorLevel, PanicLevel}, n \in AnyLevelNames : DoCheck(Entry(l, n))

SpecAnyLevel == InitAnyLevel /\ [][NextAnyLevel]_vars

\* The namespace specs and the logger names of the examples: "demo*",
\* "demo1.*,demo3.*", "foo.*", "*", and some more globs of characters and '*'.
sDemo == <<"d","e","m","o">>
sDemoChild == <<"d","e","m","o",".","c","h","i","l","d">>
sOther == <<"o","t","h","e","r">>
sDemoSlashX == <<"d","e","m","o","/","x">>
sDemo1Frontend == <<"d","e","m","o","1",".","f","r","o","n","t","e","n","d">>
sDemo2Frontend == <<"d","e","m","o","2",".","f","r","o","n","t","e","n","d">>
sDemo3Frontend == <<"d","e","m","o","3",".","f","r","o","n","t","e","n","d">>
sDemoStar == sDemo \o <<"*">>
sDemo13 == <<"d","e","m","o","1",".","*",",","d","e","m","o","3",".","*">>

GlobInputs ==
    {sDemoStar, sDemo13, sFooDotStar, sStar, sFoo, <<"*",".","f","r","o","n","t","e","n","d">>,
     <<"d","*","o">>, <<"d","e","m","o","*",",","-","*",".","c","h","i","l","d">>}

GlobNames ==
    {Empty, sDemo, sDemoChild, sOther, sDemo1Frontend, sDemo2Frontend, sDemo3Frontend, sFoo,
     sFooBar, sDemoSlashX}

InitGlob == InitWith(GlobInputs, {DebugLevel})

NextGlob ==
    \/ DoByNamespaces
    \/ \E n \in GlobNames : DoFilterCall(Entry(DebugLevel, n))

SpecGlob == InitGlob /\ [][NextGlob]_vars

\* filter := MustParseRules(input): the caller holds the filter when the
\* call returns, and the program is aborted with the panic's value in err
\* when it panics.
MustParsed(r) ==
    /\ filter' = r.filter
    /\ err' = r.panic
    /\ pc' = IF r.ok THEN "parsed" ELSE "panicked"

DoMustParseRules ==
    /\ pc = "start"
    /\ MustParsed(MustParseRules(input))
    /\ matchMap' = [i \in 1..Len(Fields(input)) |-> <<>>]
    /\ UNCHANGED <<ext, input, core, nextLevel, development, sink, hist, last, mutex, threads>>

\* A rule string is given to MustParseRules and the filter called.
InitMust == InitWith(RuleInputs, {DebugLevel})

NextMust ==
    \/ DoMustParseRules
    \/ \E e \in CallEntries : DoFilterCall(e)

SpecMust == InitMust /\ [][NextMust]_vars

\* One call of the core's filter, as a logging call records it.
Eval(fields, r) == [fields |-> fields, verdict |-> VerdictOf(r)]

\* A logging call of a zap logger on the core c: ce := core.Check(entry, nil)
\* and, when the core was added to ce, ce.Write(fields), which calls
\* core.Write(entry, fields).  evals are the calls of the filter made.
LogWritten(c, entry, fields, mm, w) ==
    [ok |-> w.ok, forwarded |-> w.forwarded, snk |-> w.snk, mm |-> w.mm, res |-> w.res,
     evals |-> <<Eval(NoFields, [ok |-> TRUE, val |-> TRUE]),
                 Eval(fields, Call(c.filter, entry, fields, mm))>>]

LogChecked(c, entry, fields, mm, snk, down, chk) ==
    IF chk.ok /\ chk.added
    THEN LogWritten(c, entry, fields, chk.mm, CoreWrite(c, entry, fields, chk.mm, snk, down))
    ELSE [ok |-> chk.ok, forwarded |-> FALSE, snk |-> snk, mm |-> chk.mm, res |-> NoError,
          evals |-> <<Eval(NoFields, Call(c.filter, entry, NoFields, mm))>>]

\* A logging call that writes whatever Check admitted, without asking the
\* filter again.
LogTrustsCheck(c, entry, fields, mm, snk, down) ==
    [ok |-> CoreCheck(c, entry, mm).ok, forwarded |-> CoreCheck(c, entry, mm).added,
     snk |-> IF CoreCheck(c, entry, mm).added THEN Append(snk, entry) ELSE snk,
     mm |-> CoreCheck(c, entry, mm).mm,
     res |-> IF CoreCheck(c, entry, mm).added THEN down ELSE NoError,
     evals |-> <<Eval(NoFields, Call(c.filter, entry, NoFields, mm))>>]

Log(c, entry, fields, mm, snk, down) ==
    LogChecked(c, entry, fields, mm, snk, down, CoreCheck(c, entry, mm))

\* A logging call on a logger on core: Check, then Write when Check admitted.
Logged(entry, fields, r) ==
    /\ matchMap' = r.mm
    /\ sink' = r.snk
    /\ evals' = r.evals
    /\ last' = [op |-> "Log", entry |-> entry, fields |-> fields, ok |-> r.ok,
                val |-> r.forwarded, verdict |-> r.evals[Len(r.evals)].verdict,
                res |-> r.res, down |-> NoError]

DoLog(entry, fields) ==
    /\ core.built
    /\ Len(sink) < MaxWrites
    /\ Logged(entry, fields, Log(core, entry, fields, matchMap, sink, NoError))
    /\ UNCHANGED <<input, pc, filter, err, core, nextLevel, development, hist, mutex, threads,
                   child, childSink, outer, locks, calls>>

\* A core is built on a parsed filter or on a filter of the caller, one of
\* which answers true without fields and false with fields, and entries are
\* logged through it.
InitLog == InitWith(SinkInputs, {DebugLevel})

NextLog ==
    \/ DoParseRules
    \/ \E f \in {filter, FieldsFilter, Reverse(FieldsFilter)} : DoNewFilteringCore(f)
    \/ \E e \in CoreEntries, fields \in {NoFields, SomeFields} : DoLog(e, fields)

SpecLog == InitLog /\ [][NextLog]_vars

\* o.Write(entry, fields) of a filteringCore o whose next is the
\* filteringCore c: c.Write is called when o's filter admits; evals are the
\* calls of the two filters made.
InnerWritten(fields, r, w, inner) ==
    [ok |-> w.ok, forwarded |-> w.forwarded, snk |-> w.snk, mm |-> w.mm, res |-> w.res,
     evals |-> <<Eval(fields, r), Eval(fields, inner)>>]

OuterWritten(c, entry, fields, snk, down, r) ==
    IF r.ok /\ r.val
    THEN InnerWritten(fields, r, CoreWrite(c, entry, fields, r.mm, snk, down),
                      Call(c.filter, entry, fields, r.mm))
    ELSE [ok |-> r.ok, forwarded |-> FALSE, snk |-> snk, mm |-> r.mm, res |-> NoError,
          evals |-> <<Eval(fields, r)>>]

\* A Write of the outer core that hands the entry to the downstream of the
\* inner core on the outer filter's word alone.
OuterWriteAlone(o, c, entry, fields, mm, snk, down) ==
    [ok |-> CoreWrite(o, entry, fields, mm, snk, down).ok,
     forwarded |-> CoreWrite(o, entry, fields, mm, snk, down).forwarded,
     snk |-> CoreWrite(o, entry, fields, mm, snk, down).snk,
     mm |-> CoreWrite(o, entry, fields, mm, snk, down).mm,
     res |-> CoreWrite(o, entry, fields, mm, snk, down).res,
     evals |-> <<Eval(fields, Call(o.filter, entry, fields, mm))>>]

OuterWrite(o, c, entry, fields, mm, snk, down) ==
    OuterWritten(c, entry, fields, snk, down, Call(o.filter, entry, fields, mm))

\* outer := NewFilteringCore(core, g)
DoNewOuterCore(g) ==
    /\ core.built
    /\ ~outer.built
    /\ outer' = NewFilteringCore(g)
    /\ UNCHANGED <<input, pc, filter, err, matchMap, core, nextLevel, development, sink, hist,
                   last, mutex, threads, child, childSink, evals, locks, calls>>

\* outer.Check(entry, ce)
DoOuterCheck(entry) ==
    /\ outer.built
    /\ matchMap' = CoreCheck(outer, entry, matchMap).mm
    /\ evals' = <<Eval(NoFields, Call(outer.filter, entry, NoFields, matchMap))>>
    /\ last' = [op |-> "outer.Check", entry |-> entry, fields |-> NoFields,
                ok |-> CoreCheck(outer, entry, matchMap).ok,
                val |-> CoreCheck(outer, entry, matchMap).added,
                verdict |-> Verdict(outer.filter, entry, NoFields, matchMap),
                res |-> NoError, down |-> NoError]
    /\ UNCHANGED <<input, pc, filter, err, core, nextLevel, development, sink, hist, mutex,
                   threads, child, childSink, outer, locks, calls>>

\* outer.Write(entry, fields)
OuterWriteCalled(entry, fields, r) ==
    /\ matchMap' = r.mm
    /\ sink' = r.snk
    /\ evals' = r.evals
    /\ last' = [op |-> "outer.Write", entry |-> entry, fields |-> fields, ok |-> r.ok,
                val |-> r.forwarded, verdict |-> r.evals[Len(r.evals)].verdict,
                res |-> r.res, down |-> NoError]

DoOuterWrite(entry, fields) ==
    /\ outer.built
    /\ Len(sink) < MaxWrites
    /\ OuterWriteCalled(entry, fields,
                        OuterWrite(outer, core, entry, fields, matchMap, sink, NoError))
    /\ UNCHANGED <<input, pc, filter, err, core, nextLevel, development, hist, mutex, threads,
                   child, childSink, outer, locks, calls>>

\* A core is built on a parsed filter or on a filter of the caller, a second
\* core is built on the first, and entries are checked and written through
\* the second.
InitChain == InitWith(SinkInputs, {DebugLevel})

NextChain ==
    \/ DoParseRules
    \/ \E f \in {filter, FieldsFilter} : DoNewFilteringCore(f)
    \/ \E g \in {filter, FieldsFilter, ExactLevel(ErrorLevel), NilFilter} : DoNewOuterCore(g)
    \/ \E e \in CoreEntries : DoOuterCheck(e)
    \/ \E e \in CoreEntries, fields \in {NoFields, SomeFields} : DoOuterWrite(e, fields)

SpecChain == InitChain /\ [][NextChain]_vars

\* Rule strings of valid and of faulty rule tokens: a token of an unknown
\* level keyword and a token with an empty side of the ':' among them.
FaultyRules ==
    {sFoo, sWarn \o <<":">> \o sFooStar, sInvalid \o <<":">> \o sStar, <<":">> \o sStar}

FaultyInputs == {Join(rs, <<" ">>) : rs \in SeqsUpTo(FaultyRules, MaxFaultyRules)}

InitFaulty == InitWith(FaultyInputs, {DebugLevel})

NextFaulty ==
    \/ DoParseRules
    \/ \E e \in {Entry(WarnLevel, sFoo), Entry(InfoLevel, sFooFoo)} : DoFilterCall(e)

SpecFaulty == InitFaulty /\ [][NextFaulty]_vars

\* A rule string is parsed and the filter called.
InitRules == InitWith(RuleInputs, {DebugLevel})

NextRules ==
    \/ DoParseRules
    \/ \E e \in CallEntries : DoFilterCall(e)

SpecRules == InitRules /\ [][NextRules]_vars

\* A namespace spec is compiled and the filter called.
InitNs == InitWith(NsInputs, {DebugLevel})

NextNs ==
    \/ DoByNamespaces
    \/ \E e \in NsEntries : DoFilterCall(e)

SpecNs == InitNs /\ [][NextNs]_vars

-----------------------------------------------------------------------------
(* The closure of ByNamespaces, statement by statement, called by several
   goroutines *)

\* The namespace specs and the logger names of the concurrent calls.
ConcInputs == {sFoo, sFooStar \o <<",">> \o sNotFooFoo, sNotFooFoo, sStar,
               sFoo \o <<",">>, <<",">> \o sFooStar}

ConcNames == {sFoo, sFooFoo}

\* mutex.Lock() at the entry of the closure.
TLock(t, name) ==
    /\ pc = "parsed"
    /\ filter.kind = "ByNamespaces"
    /\ threads[t].pc = "idle"
    /\ mutex = 0
    /\ mutex' = t
    /\ threads' = [threads EXCEPT ![t] = [Idle EXCEPT !.pc = "locked", !.name = name]]
    /\ UNCHANGED <<ext, input, pc, filter, err, matchMap, core, nextLevel, development, sink,
                   hist, last>>

\* The lookup of the name: found, the closure goes to its return statement.
THit(t) ==
    /\ threads[t].pc = "locked"
    /\ threads[t].name \in DOMAIN matchMap[1]
    /\ threads' = [threads EXCEPT ![t].pc = "return"]
    /\ UNCHANGED <<ext, input, pc, filter, err, matchMap, core, nextLevel, development, sink,
                   hist, last, mutex>>

\* A miss that starts the cache afresh with the name.
TMissEvicts(t) ==
    /\ threads[t].pc = "locked"
    /\ threads[t].name \notin DOMAIN matchMap[1]
    /\ matchMap' = [matchMap EXCEPT ![1] = MapPut(<<>>, threads[t].name, FALSE)]
    /\ threads' = [threads EXCEPT ![t].pc = "scan", ![t].i = 1]
    /\ UNCHANGED <<ext, input, pc, filter, err, core, nextLevel, development, sink, hist, last,
                   mutex>>

\* Not found: matchMap[entry.LoggerName] = false, and the loop starts.
TMiss(t) ==
    /\ threads[t].pc = "locked"
    /\ threads[t].name \notin DOMAIN matchMap[1]
    /\ matchMap' = [matchMap EXCEPT ![1] = MapPut(matchMap[1], threads[t].name, FALSE)]
    /\ threads' = [threads EXCEPT ![t].pc = "scan", ![t].i = 1]
    /\ UNCHANGED <<ext, input, pc, filter, err, core, nextLevel, development, sink, hist, last,
                   mutex>>

\* One iteration of the loop over the patterns.
Scanned(th, s) ==
    [th EXCEPT !.i = th.i + 1, !.matchInclude = s.matchInclude, !.matchExclude = s.matchExclude]

TScan(t) ==
    /\ threads[t].pc = "scan"
    /\ threads[t].i <= Len(filter.patterns)
    /\ filter.patterns[threads[t].i] # Empty
    /\ threads' = [threads EXCEPT ![t] =
            Scanned(threads[t],
                    ScanStep(filter.patterns[threads[t].i], threads[t].name,
                             [ok |-> TRUE, matchInclude |-> threads[t].matchInclude,
                              matchExclude |-> threads[t].matchExclude]))]
    /\ UNCHANGED <<ext, input, pc, filter, err, matchMap, core, nextLevel, development, sink,
                   hist, last, mutex>>

\* pattern[0] on an empty pattern panics: the deferred Unlock runs and the
\* panic leaves the closure.
TPanic(t) ==
    /\ threads[t].pc = "scan"
    /\ threads[t].i <= Len(filter.patterns)
    /\ filter.patterns[threads[t].i] = Empty
    /\ mutex' = 0
    /\ threads' = [threads EXCEPT ![t].pc = "panicked"]
    /\ UNCHANGED <<ext, input, pc, filter, err, matchMap, core, nextLevel, development, sink,
                   hist, last>>

\* matchMap[entry.LoggerName] = matchInclude && !matchExclude after the loop.
TStore(t) ==
    /\ threads[t].pc = "scan"
    /\ threads[t].i > Len(filter.patterns)
    /\ matchMap' = [matchMap EXCEPT ![1] =
            MapPut(matchMap[1], threads[t].name,
                   threads[t].matchInclude /\ ~threads[t].matchExclude)]
    /\ threads' = [threads EXCEPT ![t].pc = "return"]
    /\ UNCHANGED <<ext, input, pc, filter, err, core, nextLevel, development, sink, hist, last,
                   mutex>>

\* return matchMap[entry.LoggerName], and the deferred Unlock.
TReturn(t) ==
    /\ threads[t].pc = "return"
    /\ mutex' = 0
    /\ threads' = [threads EXCEPT ![t].pc = "returned",
                                  ![t].val = matchMap[1][threads[t].name]]
    /\ UNCHANGED <<ext, input, pc, filter, err, matchMap, core, nextLevel, development, sink,
                   hist, last>>

\* The filters of the fast paths take no lock and keep no state.
TCallFast(t, name) ==
    /\ pc = "parsed"
    /\ filter.kind # "ByNamespaces"
    /\ threads[t].pc = "idle"
    /\ threads' = [threads EXCEPT ![t] =
            [Idle EXCEPT !.pc = "returned", !.name = name,
                         !.val = Call(filter, Entry(InfoLevel, name), NoFields, matchMap).val]]
    /\ UNCHANGED <<ext, input, pc, filter, err, matchMap, core, nextLevel, development, sink,
                   hist, last, mutex>>

\* The caller has the result, or has recovered from the panic, and goes on.
TDone(t) ==
    /\ threads[t].pc \in {"returned", "panicked"}
    /\ threads' = [threads EXCEPT ![t] = Idle]
    /\ UNCHANGED <<ext, input, pc, filter, err, matchMap, core, nextLevel, development, sink,
                   hist, last, mutex>>

InitConc == InitWith(ConcInputs, {DebugLevel})

NextConc ==
    \/ DoByNamespaces
    \/ \E t \in Threads, name \in ConcNames : TLock(t, name)
    \/ \E t \in Threads : THit(t)
    \/ \E t \in Threads : TMiss(t)
    \/ \E t \in Threads : TScan(t)
    \/ \E t \in Threads : TPanic(t)
    \/ \E t \in Threads : TStore(t)
    \/ \E t \in Threads : TReturn(t)
    \/ \E t \in Threads, name \in ConcNames : TCallFast(t, name)
    \/ \E t \in Threads : TDone(t)

SpecConc == InitConc /\ [][NextConc]_vars

-----------------------------------------------------------------------------
(* The filter of a rule string, called by several goroutines: each rule's
   closure has its own mutex *)

\* The rules of the filter ParseRules built, in the order a call evaluates
\* them: Any(topFilter, rule) calls topFilter, the earlier rules, first.
RECURSIVE Clauses(_)
Clauses(f) == IF f.kind = "nil" THEN <<>> ELSE Append(Clauses(f.subs[1]), f.subs[2])

\* The namespace filter of a rule, and whether the rule's level filter lets
\* the entry through to it (All calls the level filter first).
Matcher(clause) == IF clause.kind = "All" THEN clause.subs[2] ELSE clause

LevelPasses(clause, entry) ==
    clause.kind = "All" => Call(clause.subs[1], entry, NoFields, matchMap).val

\* filter(entry, nil) is called.
LStart(t, entry) ==
    /\ pc = "parsed"
    /\ calls[t].pc = "idle"
    /\ calls' = [calls EXCEPT ![t] = [NoEval EXCEPT !.pc = "rule", !.entry = entry, !.k = 1]]
    /\ UNCHANGED <<input, pc, filter, err, matchMap, core, nextLevel, development, sink, hist,
                   last, mutex, threads, child, childSink, outer, evals, locks>>

\* The call is at a rule: past the last rule it returns false; a rule whose
\* level filter refuses the entry gives false; a rule whose namespace filter
\* is one of the fast paths gives that filter's answer, without a lock; the
\* closure of any other rule starts with mutex.Lock().
RuleReached(th, n, passes, matcher) ==
    IF th.k > n THEN [th EXCEPT !.pc = "returned", !.val = FALSE]
    ELSE IF ~passes \/ matcher.kind = "alwaysFalseFilter" THEN [th EXCEPT !.k = th.k + 1]
    ELSE IF matcher.kind = "alwaysTrueFilter" THEN [th EXCEPT !.pc = "returned", !.val = TRUE]
    ELSE [th EXCEPT !.pc = "wait"]

LRule(t) ==
    /\ calls[t].pc = "rule"
    /\ calls' = [calls EXCEPT ![t] =
            IF calls[t].k > Len(Clauses(filter))
            THEN RuleReached(calls[t], Len(Clauses(filter)), FALSE, NilFilter)
            ELSE RuleReached(calls[t], Len(Clauses(filter)),
                             LevelPasses(Clauses(filter)[calls[t].k], calls[t].entry),
                             Matcher(Clauses(filter)[calls[t].k]))]
    /\ UNCHANGED <<input, pc, filter, err, matchMap, core, nextLevel, development, sink, hist,
                   last, mutex, threads, child, childSink, outer, evals, locks>>

\* mutex.Lock() of the rule's closure.
LLock(t) ==
    /\ calls[t].pc = "wait"
    /\ locks[calls[t].k] = 0
    /\ locks' = [locks EXCEPT ![calls[t].k] = t]
    /\ calls' = [calls EXCEPT ![t].pc = "locked"]
    /\ UNCHANGED <<input, pc, filter, err, matchMap, core, nextLevel, development, sink, hist,
                   last, mutex, threads, child, childSink, outer, evals>>

\* The body of the closure, under its mutex: the lookup, and on a miss the
\* provisional false, the loop and the store; a panic in the loop leaves the
\* body with the mutex still held.
BodyDone(th, r) == [th EXCEPT !.pc = "unlock", !.ok = r.ok, !.val = r.ok /\ r.val]

LBody(t) ==
    /\ calls[t].pc = "locked"
    /\ matchMap' = [matchMap EXCEPT ![calls[t].k] =
            NsCall(Matcher(Clauses(filter)[calls[t].k]).patterns, calls[t].entry.LoggerName,
                   matchMap[calls[t].k]).m]
    /\ calls' = [calls EXCEPT ![t] =
            BodyDone(calls[t],
                     NsCall(Matcher(Clauses(filter)[calls[t].k]).patterns,
                            calls[t].entry.LoggerName, matchMap[calls[t].k]))]
    /\ UNCHANGED <<input, pc, filter, err, core, nextLevel, development, sink, hist, last, mutex,
                   threads, child, childSink, outer, evals, locks>>

\* The deferred mutex.Unlock(), on the return and on the panic: a true ends
\* the call of the filter, a false takes it to the next rule, and the panic
\* leaves the filter.
Unlocked(th) ==
    IF ~th.ok THEN [th EXCEPT !.pc = "panicked"]
    ELSE IF th.val THEN [th EXCEPT !.pc = "returned"]
    ELSE [th EXCEPT !.pc = "rule", !.k = th.k + 1]

LUnlock(t) ==
    /\ calls[t].pc = "unlock"
    /\ locks' = [locks EXCEPT ![calls[t].k] = 0]
    /\ calls' = [calls EXCEPT ![t] = Unlocked(calls[t])]
    /\ UNCHANGED <<input, pc, filter, err, matchMap, core, nextLevel, development, sink, hist,
                   last, mutex, threads, child, childSink, outer, evals>>

\* The caller has the result, or has recovered from the panic, and goes on.
LDone(t) ==
    /\ calls[t].pc \in {"returned", "panicked"}
    /\ calls' = [calls EXCEPT ![t] = NoEval]
    /\ UNCHANGED <<input, pc, filter, err, matchMap, core, nextLevel, development, sink, hist,
                   last, mutex, threads, child, childSink, outer, evals, locks>>

\* The rule strings and the entries of the concurrent calls.
LockInputs ==
    {sFoo \o <<" ">> \o sDebug \o <<":">> \o sFooStar,
     sError \o <<":">> \o sFooStar \o <<",">> \o sNotFooFoo \o <<" ">> \o sInfo \o <<":">> \o sStar,
     sInfo \o <<":">> \o sFoo \o <<",">> \o <<" ">> \o sFooDotStar,
     sFooDotStar}

LockEntries == {Entry(InfoLevel, sFoo), Entry(DebugLevel, sFooFoo)}

InitLocks == InitWith(LockInputs, {DebugLevel})

NextLocks ==
    \/ DoParseRules
    \/ \E t \in Threads, e \in LockEntries : LStart(t, e)
    \/ \E t \in Threads : LRule(t)
    \/ \E t \in Threads : LLock(t)
    \/ \E t \in Threads : LBody(t)
    \/ \E t \in Threads : LUnlock(t)
    \/ \E t \in Threads : LDone(t)

\* The scheduler lets every goroutine that can take a step take one, and the
\* mutex lets every goroutine that waits for it have it in the end.
SpecLocks ==
    /\ InitLocks /\ [][NextLocks]_vars
    /\ \A t \in Threads :
         /\ WF_vars(LRule(t) \/ LBody(t) \/ LUnlock(t) \/ LDone(t))
         /\ SF_vars(LLock(t))

-----------------------------------------------------------------------------
(* The combinators, called on filters of the caller's choice *)

\* The filters the combinators are given: nil, the constant filters, a level
\* filter of each kind, a filter that reads the fields and a namespace
\* matcher.
CombFilters ==
    {NilFilter, alwaysTrueFilter, alwaysFalseFilter, ExactLevel(ErrorLevel),
     MinimumLevel(WarnLevel), FieldsFilter, ByNamespaces(sFoo, 1)}

Combination(op, filters, level) == [op |-> op, filters |-> filters, level |-> level]

CombInputs ==
    {Combination(op, fs, 0) : op \in {"All", "Any"},
                              fs \in {<<>>} \cup SeqsUpTo(CombFilters, MaxFilters)}
    \cup {Combination("Reverse", <<f>>, 0) : f \in CombFilters \ {NilFilter}}
    \cup {Combination(op, <<>>, l) : op \in {"ExactLevel", "MinimumLevel"}, l \in LevelSet}

CombEntries == {Entry(l, n) : l \in LevelSet, n \in {Empty, sFoo}}

\* filter := All(filters...), Any(filters...), Reverse(filter),
\* ExactLevel(level) or MinimumLevel(level)
Combine(in) ==
    CASE in.op = "All" -> All(in.filters)
      [] in.op = "Any" -> Any(in.filters)
      [] in.op = "Reverse" -> Reverse(in.filters[1])
      [] in.op = "ExactLevel" -> ExactLevel(in.level)
      [] in.op = "MinimumLevel" -> MinimumLevel(in.level)

DoCombine ==
    /\ pc = "start"
    /\ filter' = Combine(input)
    /\ pc' = "parsed"
    /\ matchMap' = <<(<<>>)>>
    /\ UNCHANGED <<ext, input, err, core, nextLevel, development, sink, hist, last, mutex,
                   threads>>

\* filter(entry, fields), called by the holder of the filter.
FilterCalledWith(entry, fields, r) ==
    /\ matchMap' = r.mm
    /\ last' = [op |-> "filter", entry |-> entry, fields |-> fields, ok |-> r.ok,
                val |-> r.ok /\ r.val, verdict |-> VerdictOf(r), res |-> NoError,
                down |-> NoError]

DoFilterCallWith(entry, fields) ==
    /\ pc = "parsed"
    /\ FilterCalledWith(entry, fields, Call(filter, entry, fields, matchMap))
    /\ UNCHANGED <<ext, input, pc, filter, err, core, nextLevel, development, sink, hist, mutex,
                   threads>>

InitComb == InitWith(CombInputs, {DebugLevel})

NextComb ==
    \/ DoCombine
    \/ \E e \in CombEntries, fields \in {NoFields, SomeFields} : DoFilterCallWith(e, fields)

SpecComb == InitComb /\ [][NextComb]_vars

-----------------------------------------------------------------------------
(* The reading of a rule string the claims are checked against: the tokens
   of the input, the first ':' of a token, the level set of a level list and
   the include/exclude policy of a namespace spec, written without the
   parser's and the matcher's code. *)

Min(S) == CHOOSE x \in S : \A y \in S : x <= y

RefHasColon(tok) == \E i \in 1..Len(tok) : tok[i] = ":"

RefColon(tok) == Min({i \in 1..Len(tok) : tok[i] = ":"})

RefLeft(tok) == IF RefHasColon(tok) THEN SubSeq(tok, 1, RefColon(tok) - 1) ELSE Empty

RefRight(tok) == IF RefHasColon(tok) THEN SubSeq(tok, RefColon(tok) + 1, Len(tok)) ELSE tok

RefBadSyntax(tok) == RefHasColon(tok) /\ (RefLeft(tok) = Empty \/ RefRight(tok) = Empty)

\* The levels of a keyword in lower case: Keywords and allLevels are both in
\* the order of severity.
RefKeywordLevels(k) ==
    IF k \in {Empty, sStar} THEN LevelSet
    ELSE UNION {IF k = Keywords[i] THEN {allLevels[i]}
                ELSE IF k = Plus(Keywords[i]) THEN {allLevels[j] : j \in i..7}
                ELSE {} : i \in 1..7}

RefKnownKeyword(k) ==
    k \in {Empty, sStar} \/ \E i \in 1..7 : k \in {Keywords[i], Plus(Keywords[i])}

RefLevelTokens(tok) == Split(RefLeft(tok), ",")

RefLevels(tok) ==
    UNION {RefKeywordLevels(ToLower(RefLevelTokens(tok)[i])) : i \in 1..Len(RefLevelTokens(tok))}

RefUnknowns(tok) ==
    {i \in 1..Len(RefLevelTokens(tok)) : ~RefKnownKeyword(ToLower(RefLevelTokens(tok)[i]))}

RefUnsupported(tok) == ~RefBadSyntax(tok) /\ RefUnknowns(tok) # {}

\* The first level token of tok that is no keyword.
RefOffending(tok) == RefLevelTokens(tok)[Min(RefUnknowns(tok))]

RefBadTokens(toks) ==
    {k \in 1..Len(toks) : RefBadSyntax(toks[k]) \/ RefUnsupported(toks[k])}

RefFirstBad(toks) == toks[Min(RefBadTokens(toks))]

RefError(toks) ==
    IF RefBadTokens(toks) = {} THEN "none"
    ELSE IF RefBadSyntax(RefFirstBad(toks)) THEN "bad syntax"
    ELSE "unsupported keyword"

\* The patterns of a namespace spec, and the policy: some inclusion pattern
\* matches the name and no exclusion pattern does.
RefPatterns(spec) == SelectSeq(Split(spec, ","), LAMBDA p : p # Empty)

RefIncluded(patterns, name) ==
    \E i \in 1..Len(patterns) : patterns[i][1] # "-" /\ Match(patterns[i], name)

RefExcluded(patterns, name) ==
    \E i \in 1..Len(patterns) : patterns[i][1] = "-" /\ Match(Tail(patterns[i]), name)

RefNsMatches(spec, name) ==
    RefIncluded(RefPatterns(spec), name) /\ ~RefExcluded(RefPatterns(spec), name)

RefAdmits(toks, entry) ==
    \E k \in 1..Len(toks) :
        /\ entry.Level \in RefLevels(toks[k])
        /\ RefNsMatches(RefRight(toks[k]), entry.LoggerName)

-----------------------------------------------------------------------------
(* The claims *)

\* C1 (SpecRules): the predicate of an accepted rule string admits an entry
\* iff some rule token has the entry's level in its level set and matches
\* the entry's logger name with its namespace spec.  The code breaks it: a
\* namespace spec with an empty pattern ("foo,") makes the call panic, and
\* later calls for that name return the false left in the cache.
C1_RulesAdmit ==
    (pc = "parsed" /\ last.op = "filter") =>
        ((last.verdict = "true") = RefAdmits(Fields(input), last.entry))

\* C2 (SpecNs): the ByNamespaces predicate returns true iff some inclusion
\* pattern matches the name and no exclusion pattern does.  The code breaks
\* it: on a spec with an empty pattern the call panics where the policy
\* gives a verdict.
C2_IncludeExclude ==
    (pc = "parsed" /\ last.op = "filter") =>
        ((last.verdict = "true") = RefNsMatches(input, last.entry.LoggerName))

\* The entries of the Write calls the filter admitted, in call order.
RECURSIVE AdmittedOf(_)
AdmittedOf(h) ==
    IF h = <<>> THEN <<>>
    ELSE (IF Head(h).verdict = "true" THEN <<Head(h).entry>> ELSE <<>>) \o AdmittedOf(Tail(h))

\* C3 (Spec): Write calls the downstream Write once iff the filter is true on
\* (entry, fields), and returns nil without calling it when the filter is
\* false; the downstream has received exactly the admitted entries, in call
\* order.
C3_WriteForwardsAdmitted ==
    /\ sink = AdmittedOf(hist)
    /\ last.op = "Write" =>
        /\ last.val = (last.verdict = "true")
        /\ last.verdict = "false" => last.ok
        /\ sink = IF last.val THEN Append(AdmittedOf(SubSeq(hist, 1, Len(hist) - 1)), last.entry)
                  ELSE AdmittedOf(SubSeq(hist, 1, Len(hist) - 1))

\* A filter that reads the fields rejected the first Write, made without
\* fields, and admitted the second, made with fields: the sink holds the
\* second entry only.
C3_Witness ==
    /\ core.built /\ core.filter.kind = "FieldsFilter"
    /\ Len(hist) = 2 /\ hist[1].verdict = "false" /\ hist[2].verdict = "true"
    /\ last.op = "Write" /\ last.fields = SomeFields
    /\ sink = <<hist[2].entry>>

\* C4 (Spec): Check adds the core to the checked entry iff the filter is true
\* on the entry with nil fields, and leaves the checked entry as it was
\* otherwise; whether the downstream core is enabled for the level plays no
\* part.
C4_CheckByFilterOnly ==
    last.op = "Check" => (last.val = (last.verdict = "true"))

\* Check admitted an entry of a level the downstream core is not enabled for.
C4_Witness ==
    /\ last.op = "Check" /\ last.val
    /\ core.filter.kind # "FieldsFilter"
    /\ ~CoreEnabled(core, last.entry.Level, nextLevel)

\* C5 (SpecNs): what a matcher returns for a name is the verdict of the match
\* policy for that name, whatever was evaluated before, and so is every value
\* its cache holds.  The code breaks it: the false stored before the scan
\* stays in the cache when the scan panics on an empty pattern, and the next
\* evaluation of the name returns it.
C5_CacheCoherent ==
    (pc = "parsed" /\ filter.kind = "ByNamespaces") =>
        /\ \A n \in DOMAIN matchMap[1] : matchMap[1][n] = RefNsMatches(input, n)
        /\ (last.op = "filter" /\ last.ok) =>
                (last.val = RefNsMatches(input, last.entry.LoggerName))

\* C6 (SpecConc): every goroutine to which the closure returns a boolean for a
\* name gets the verdict of the match policy for that name, never the false
\* stored before the scan.  The code breaks it: a goroutine whose scan panics
\* releases the mutex with that false in the cache, and the next goroutine
\* gets it.
C6_ConcurrentVerdict ==
    \A t \in Threads :
        threads[t].pc = "returned" => (threads[t].val = RefNsMatches(input, threads[t].name))

\* C7 (Spec): ParseRules on an input without rule tokens returns no error and
\* a filter that can be called and returns false on every entry, and a core
\* built on it forwards nothing and admits nothing.  The code breaks it: the
\* filter returned is nil, and calling it panics.
C7_EmptyRules ==
    (pc # "start" /\ Fields(input) = <<>>) =>
        /\ pc = "parsed"
        /\ \A e \in CoreEntries : Verdict(filter, e, NoFields, matchMap) = "false"
        /\ core.built =>
            \A e \in CoreEntries : Verdict(core.filter, e, NoFields, matchMap) = "false"
        /\ sink = <<>>

\* C8 (SpecRules): the unsupported-keyword error quotes the level token that
\* is no keyword, and nothing else.  The code breaks it: it quotes the whole
\* left part of the rule, so for "info,invalid:*" the error names
\* "info,invalid".
C8_ErrorNamesToken ==
    (pc = "failed" /\ err.msg = "unsupported keyword: ") =>
        (err.arg = Quote(RefOffending(RefFirstBad(Fields(input)))))

\* C9 (SpecRules): a rule token is split at its first ':' only; ParseRules
\* fails with "bad syntax" exactly when the first faulty rule token has a ':'
\* with an empty side, and a token with a non-empty left and right side is
\* no syntax error, whatever ':' its right side holds.
C9_FirstColonSplit ==
    pc # "start" =>
        /\ (err = Errorf("bad syntax", Empty)) = (RefError(Fields(input)) = "bad syntax")
        /\ (pc = "failed") = (RefError(Fields(input)) # "none")
        /\ \A k \in 1..Len(Fields(input)) :
                SplitRule(Fields(input)[k]).err = NoError =>
                    /\ SplitRule(Fields(input)[k]).left = RefLeft(Fields(input)[k])
                    /\ SplitRule(Fields(input)[k]).right = RefRight(Fields(input)[k])

\* A rule whose right side holds a second ':' was parsed without error.
C9_Witness ==
    /\ pc = "parsed"
    /\ Len(Fields(input)) = 1
    /\ RefHasColon(RefRight(input))
    /\ last.op = "filter"

\* The rules "t1:X t2:X ..." for the rule tok = "t1,t2,...:X".
RefExpanded(tok) ==
    Join([i \in 1..Len(RefLevelTokens(tok)) |-> RefLevelTokens(tok)[i] \o <<":">> \o RefRight(tok)],
         <<" ">>)

\* The names the verdicts of a filter are compared on.
RefNames == {Empty, sFoo, sFooFoo}

RefFresh(in) == [i \in 1..Len(Fields(in)) |-> <<>>]

\* C10 (SpecRules): level tokens are read without regard to case; a keyword
\* selects its level, keyword+ that level and the more severe ones, '*' and
\* the empty token all seven, and a list the union of its tokens' sets: a
\* one-rule input is accepted iff its level tokens are keywords, its filter
\* admits at a level outside the set nothing and at a level inside it what
\* the namespace spec gives, and "t1,t2:X" gives the verdicts of
\* "t1:X t2:X".
C10_LevelTokens ==
    (pc # "start" /\ Len(Fields(input)) = 1 /\ ~RefBadSyntax(Fields(input)[1])) =>
        /\ (pc = "parsed") = (RefUnknowns(Fields(input)[1]) = {})
        /\ pc = "parsed" =>
            \A l \in LevelSet, n \in RefNames :
                Verdict(filter, Entry(l, n), NoFields, matchMap)
                    = IF l \in RefLevels(Fields(input)[1])
                      THEN Verdict(ByNamespaces(RefRight(Fields(input)[1]), 1), Entry(l, n),
                                   NoFields, matchMap)
                      ELSE "false"
        /\ (pc = "parsed" /\ last = NoCall /\ RefHasColon(input)
                /\ \A i \in 1..Len(RefLevelTokens(Fields(input)[1])) :
                        RefLevelTokens(Fields(input)[1])[i] # Empty) =>
            \A l \in LevelSet, n \in RefNames :
                Verdict(filter, Entry(l, n), NoFields, RefFresh(input))
                    = Verdict(ParseRules(RefExpanded(Fields(input)[1])).filter, Entry(l, n),
                              NoFields, RefFresh(RefExpanded(Fields(input)[1])))

\* A rule with a list of two level tokens, one of them in upper case or with
\* a '+', admitted an entry.
C10_Witness ==
    /\ pc = "parsed"
    /\ Len(Fields(input)) = 1
    /\ Len(RefLevelTokens(input)) = 2
    /\ RefLevels(input) = {InfoLevel, ErrorLevel, DPanicLevel, PanicLevel, FatalLevel}
    /\ last.op = "filter" /\ last.verdict = "true" /\ last.entry.Level = ErrorLevel

\* The evaluation of the closure of ByNamespaces on the patterns of a spec,
\* from an empty cache.
RefGeneral(spec, name) == VerdictOf(NsCall(Split(spec, ","), name, <<>>))

\* C11 (SpecNs): where ByNamespaces takes a fast path, the filter returns for
\* every name what the closure's evaluation of the same patterns returns.
\* The code breaks it: for "*" the fast path is true on the name "f/o", on
\* which path.Match("*", ..) is false.
C11_FastPaths ==
    (pc = "parsed" /\ filter.kind # "ByNamespaces" /\ last.op = "filter") =>
        (last.verdict = RefGeneral(input, last.entry.LoggerName))

\* The glob of a pattern, and whether path.Match rejects it as malformed.
RefGlob(p) == IF p # Empty /\ p[1] = "-" THEN Tail(p) ELSE p

RefMalformed(p) == \E k \in 1..Len(Elems(RefGlob(p))) : Elems(RefGlob(p))[k].kind = "bad"

\* The spec with each malformed pattern replaced by a well-formed pattern of
\* the same sign that matches none of the names.
RefNoName(p) == IF p[1] = "-" THEN <<"-", "z">> ELSE <<"z">>

RefWellFormed(spec) ==
    Join([i \in 1..Len(Split(spec, ",")) |->
            IF RefMalformed(Split(spec, ",")[i]) THEN RefNoName(Split(spec, ",")[i])
            ELSE Split(spec, ",")[i]], <<",">>)

RefFreshNs == <<(<<>>)>>

\* C12 (SpecNs): a malformed pattern is no error, when the spec is compiled
\* or when it is evaluated; as an inclusion or as an exclusion it matches no
\* name, and the spec gives on every name the verdict of the spec with a
\* well-formed pattern that matches no name in its place.
C12_MalformedNoMatch ==
    pc = "parsed" =>
        /\ err = NoError
        /\ last = NoCall => \A n \in Names :
            Verdict(filter, Entry(InfoLevel, n), NoFields, RefFreshNs)
                = Verdict(ByNamespaces(RefWellFormed(input), 1), Entry(InfoLevel, n),
                          NoFields, RefFreshNs)
        /\ (last.op = "filter" /\ last.verdict # "panic") =>
            (last.verdict = Verdict(ByNamespaces(RefWellFormed(input), 1), last.entry,
                                    NoFields, matchMap))

\* A spec of a malformed pattern and a pattern that matches the name gave
\* true on the name.
C12_Witness ==
    /\ pc = "parsed"
    /\ Len(Split(input, ",")) = 2
    /\ \E i \in 1..2 : RefMalformed(Split(input, ",")[i])
    /\ last.op = "filter" /\ last.verdict = "true"
    /\ filter.kind = "ByNamespaces"

\* C13 (SpecNs): every evaluation of a filter of ByNamespaces returns a
\* boolean, specs with an empty pattern included.  The code breaks it: the
\* closure evaluates pattern[0] on the empty pattern of "foo," and panics.
C13_Completes ==
    (pc = "parsed" /\ last.op = "filter") => last.ok

\* C14 as stated (SpecConc): a cached name is never removed and no write
\* changes the boolean stored for it.  The closure's own second store does:
\* it replaces the false stored before the scan by the verdict.
C14_NoValueChanges ==
    [][pc = "parsed" =>
        \A n \in DOMAIN matchMap[1] :
            n \in DOMAIN matchMap'[1] /\ matchMap'[1][n] = matchMap[1][n]]_vars

\* C14 (SpecConc): the cache gets an entry for a name only in an evaluation
\* of that name, and no entry is removed; the one write that changes a stored
\* boolean is the store of the verdict that ends the scan of the evaluation
\* holding the mutex, over the false that evaluation stored before the scan.
C14_CacheGrows ==
    [][pc = "parsed" =>
        /\ \A n \in DOMAIN matchMap[1] : n \in DOMAIN matchMap'[1]
        /\ \A n \in DOMAIN matchMap'[1] \ DOMAIN matchMap[1] :
                mutex # 0 /\ threads[mutex].name = n /\ matchMap'[1][n] = FALSE
        /\ \A n \in DOMAIN matchMap[1] :
                matchMap'[1][n] # matchMap[1][n] =>
                    /\ mutex # 0 /\ mutex' = mutex
                    /\ threads[mutex].pc = "scan" /\ threads'[mutex].pc = "return"
                    /\ threads[mutex].name = n
                    /\ matchMap[1][n] = FALSE]_vars

\* Both names are cached, one of them with true, and an evaluation has
\* returned.
C14_Witness ==
    /\ pc = "parsed" /\ filter.kind = "ByNamespaces"
    /\ DOMAIN matchMap[1] = ConcNames
    /\ \E n \in ConcNames : matchMap[1][n]
    /\ \E t \in Threads : threads[t].pc = "returned"
    /\ mutex = 0

\* The input "B A" for the input "A B" of two rule tokens, and the caches of
\* its two rules for the caches mm of the rules of "A B".
RefSwapped(in) == Fields(in)[2] \o <<" ">> \o Fields(in)[1]

RefSwappedCaches(mm) == <<mm[2], mm[1]>>

\* C15 (SpecRules): the filters of "A B" and of "B A" give the same verdict on
\* every level and name, from empty caches and after any evaluations.  The
\* code breaks it: for "debug:foo, foo" the first rule's matcher panics on
\* (debug, "foo") before the second rule is asked, while the filter of
\* "foo debug:foo," returns true.
C15_RulesCommute ==
    (pc = "parsed" /\ Len(Fields(input)) = 2) =>
        \A l \in LevelSet, n \in RefNames :
            /\ Verdict(filter, Entry(l, n), NoFields, RefFresh(input))
                = Verdict(ParseRules(RefSwapped(input)).filter, Entry(l, n), NoFields,
                          RefFresh(input))
            /\ Verdict(filter, Entry(l, n), NoFields, matchMap)
                = Verdict(ParseRules(RefSwapped(input)).filter, Entry(l, n), NoFields,
                          RefSwappedCaches(matchMap))

\* Rule token a admits, by the reading of the rules, every entry rule token b
\* admits.
RefSubsumes(a, b) ==
    \A l \in LevelSet, n \in RefNames :
        RefAdmits(<<b>>, Entry(l, n)) => RefAdmits(<<a>>, Entry(l, n))

\* C16 (SpecRules): a rule token next to a rule token that subsumes it, or
\* next to itself, adds nothing: the filter of the two admits the entries the
\* filter of the subsuming token alone admits.  The code breaks it: in
\* "debug:foo, foo" the subsumed rule comes first and its matcher panics on
\* (debug, "foo"), an entry the filter of "foo" admits.
C16_SubsumedAddsNothing ==
    (pc = "parsed" /\ Len(Fields(input)) = 2) =>
        \A k \in 1..2 :
            RefSubsumes(Fields(input)[k], Fields(input)[3 - k]) =>
                \A l \in LevelSet, n \in RefNames :
                    (Verdict(filter, Entry(l, n), NoFields, RefFresh(input)) = "true")
                        = (Verdict(ParseRules(Fields(input)[k]).filter, Entry(l, n), NoFields,
                                   RefFreshNs) = "true")

\* What a filter of the list returns on the entry and the fields of the last
\* call.
RefHolds(f) == Call(f, last.entry, last.fields, matchMap).val

RefNonNil(filters) == {i \in 1..Len(filters) : filters[i].kind # "nil"}

\* C17 (SpecComb): All(p1..pn) is true on an entry iff every non-nil pi is
\* true on it and some pi is non-nil; over an empty or all-nil list it is
\* false.
C17_All ==
    (pc = "parsed" /\ input.op = "All" /\ last.op = "filter") =>
        /\ last.ok
        /\ last.val = (/\ \A i \in RefNonNil(input.filters) : RefHolds(input.filters[i])
                       /\ RefNonNil(input.filters) # {})

\* All of nil and of a filter that is true on the entry returned true.
C17_Witness ==
    /\ pc = "parsed" /\ input.op = "All" /\ Len(input.filters) = 2
    /\ Cardinality(RefNonNil(input.filters)) = 1
    /\ last.op = "filter" /\ last.verdict = "true"

\* C18 (SpecComb): Any(p1..pn) is true on an entry iff some non-nil pi is true
\* on it; a nil pi is skipped, and over an empty or all-nil list Any is
\* false.
C18_Any ==
    (pc = "parsed" /\ input.op = "Any" /\ last.op = "filter") =>
        /\ last.ok
        /\ last.val = (\E i \in RefNonNil(input.filters) : RefHolds(input.filters[i]))

\* Any of nil and of a filter that is true on the entry returned true.
C18_Witness ==
    /\ pc = "parsed" /\ input.op = "Any" /\ Len(input.filters) = 2
    /\ input.filters[1].kind = "nil"
    /\ last.op = "filter" /\ last.verdict = "true"

\* C19 (SpecComb): ExactLevel(L) admits an entry of level M iff M = L,
\* MinimumLevel(L) iff M >= L, whatever the logger name and the fields, and
\* Reverse(p) admits an entry iff p rejects it.
C19_LevelFilters ==
    (pc = "parsed" /\ last.op = "filter") =>
        /\ input.op = "ExactLevel" => (last.ok /\ last.val = (last.entry.Level = input.level))
        /\ input.op = "MinimumLevel" => (last.ok /\ last.val = (last.entry.Level >= input.level))
        /\ input.op = "Reverse" => (last.ok /\ last.val = ~RefHolds(input.filters[1]))

\* Reverse of the filter that reads the fields rejected an entry that came
\* with fields.
C19_Witness ==
    /\ pc = "parsed" /\ input.op = "Reverse" /\ input.filters[1].kind = "FieldsFilter"
    /\ last.op = "filter" /\ last.fields = SomeFields /\ last.verdict = "false"

\* The decorator's part of a Write step: the core is left as it was, and the
\* caches become what the filter's call on (entry, fields) makes of them,
\* whatever the downstream Write returned.
C20_WriteStep ==
    (hist' # hist) =>
        /\ core' = core
        /\ matchMap' = Call(core.filter, last'.entry, last'.fields, matchMap).mm
        /\ last'.verdict = Verdict(core.filter, last'.entry, last'.fields, matchMap)
        /\ Len(sink') = Len(sink) + (IF last'.verdict = "true" THEN 1 ELSE 0)

\* C20 (SpecSink): Write returns the result of the downstream Write, nil or a
\* failure, as it is when the entry is admitted, and nil when it is not; Sync
\* returns the result of the downstream Sync as it is; the downstream Write
\* is called once per admitted entry, failed or not; and a Write step leaves
\* the core and its filter's state as the filter's call alone makes them, so
\* that a failed downstream Write changes no later admission decision.
C20_DownstreamResult ==
    /\ [](/\ (last.op = "Write" /\ last.val) => (last.res = last.down)
          /\ (last.op = "Write" /\ ~last.val) => (last.res = NoError)
          /\ last.op = "Sync" => (last.res = last.down)
          /\ Len(sink) = Cardinality({i \in 1..Len(hist) : hist[i].verdict = "true"}))
    /\ [][C20_WriteStep]_vars

\* The downstream Write failed on a first admitted entry and Write returned
\* that failure; a later entry was admitted and forwarded all the same.
C20_Witness ==
    /\ Len(hist) = 2 /\ hist[1].verdict = "true" /\ hist[1].down = DownError
    /\ last.op = "Write" /\ last.val /\ last.down = DownError /\ last.res = DownError
    /\ sink = <<hist[1].entry, hist[2].entry>>

\* The original core of a With step is left as it was, and so are the caches
\* and both downstream cores.
C21_WithStep ==
    (child' # child) =>
        /\ core' = core
        /\ matchMap' = matchMap
        /\ sink' = sink /\ childSink' = childSink

\* C21 (SpecWith): the core With(fields) returns is built on the downstream's
\* With(fields) and holds the very filter of the original, caches included;
\* in every state its Check and its Write admit exactly the entries the
\* original's do and leave the caches the same; what it forwards reaches the
\* downstream's With(fields) core only; and With leaves the original core,
\* its downstream and its filter as they were.
C21_WithSharesFilter ==
    /\ [](child.built =>
            /\ core.built /\ core.next = NoFields
            /\ child.filter = core.filter
            /\ last.op = "With" => (child.next = core.next \o last.fields)
            /\ \A e \in WithEntries :
                 /\ CoreCheck(child, e, matchMap) = CoreCheck(core, e, matchMap)
                 /\ \A fields \in {NoFields, SomeFields} :
                      /\ CoreWrite(child, e, fields, matchMap, <<>>, NoError)
                            = CoreWrite(core, e, fields, matchMap, <<>>, NoError)
            /\ last.op = "child.Write" => (last.val = (last.verdict = "true"))
            /\ last.op = "child.Check" => (last.val = (last.verdict = "true"))
            /\ Len(sink) = Cardinality({i \in 1..Len(hist) : hist[i].verdict = "true"}))
    /\ [][C21_WithStep]_vars

\* A core made by With(fields) of a core on a namespace filter forwarded an
\* entry to the downstream's With(fields) core, on a verdict the original
\* core's Check had cached; the original's downstream received nothing.
C21_Witness ==
    /\ child.built /\ child.next = SomeFields /\ core.next = NoFields
    /\ core.filter.kind # "FieldsFilter"
    /\ last.op = "child.Write" /\ last.val
    /\ childSink = <<last.entry>> /\ sink = <<>>
    /\ matchMap # [i \in 1..Len(matchMap) |-> <<>>]
\* C22 (Spec): Enabled(level) is the downstream core's answer for the level,
\* which logs the levels from nextLevel up, whatever the core's filter is.
C22_EnabledIsDownstream ==
    last.op = "Enabled" => (last.val = (last.entry.Level >= nextLevel))

\* Enabled answered true for a level at which the core's filter admits no
\* entry, whatever the logger name and the fields.
C22_Witness ==
    /\ last.op = "Enabled" /\ last.val
    /\ \A n \in {sFoo, sFooFoo}, fields \in {NoFields, SomeFields} :
         Verdict(core.filter, Entry(last.entry.Level, n), fields, matchMap) = "false"
\* The levels CheckAnyLevel tries, in the order it tries them.
RefTried == <<DebugLevel, InfoLevel, WarnLevel, ErrorLevel, DPanicLevel>>

\* The rules of the core admit no entry of the five levels under the name.
RefAdmitsNone(name) ==
    \A i \in 1..5 :
        Verdict(core.filter, Entry(RefTried[i], name), NoFields, matchMap) = "false"

\* A CheckAnyLevel that returned gave true iff the logger's Check, made in
\* the state of the call, succeeds for one of the five levels.
C23_AnyLevelStep ==
    (last'.op = "CheckAnyLevel" /\ last'.ok /\ core.built) =>
        (last'.val = (\E i \in 1..5 :
            /\ LoggerCheck(core, RefTried[i], last'.entry.LoggerName, matchMap, nextLevel,
                           development).ok
            /\ LoggerCheck(core, RefTried[i], last'.entry.LoggerName, matchMap, nextLevel,
                           development).nonnil))

\* CheckAnyLevel calls the logger's Check for debug, info, warn, error, dpanic
\* in that order and never for panic or fatal; it stops at the first Check
\* that succeeds and returns true, and returns false when all five fail.
C23_TriesInOrder ==
    /\ [](last.op = "CheckAnyLevel" =>
            /\ Len(evals) <= 5
            /\ \A i \in 1..Len(evals) :
                 /\ evals[i].level = RefTried[i]
                 /\ i < Len(evals) => evals[i].verdict = "false"
            /\ last.ok => (last.val = (Len(evals) > 0 /\ evals[Len(evals)].verdict = "true"))
            /\ (last.ok /\ ~last.val) => Len(evals) = 5
            /\ ~last.ok => (Len(evals) > 0 /\ evals[Len(evals)].verdict = "panic"))
    /\ [][C23_AnyLevelStep]_vars

\* C23 (SpecAnyLevel): CheckAnyLevel returns true iff the logger's Check
\* succeeds for one of debug, info, warn, error, dpanic, tried in that order
\* up to the first success, and never tries panic or fatal, so that it
\* returns false for a logger whose rules admit no entry of the five levels.
\* The code breaks the last part: on a logger with the Development option the
\* Check at dpanic returns an entry whatever the rules admit, and
\* CheckAnyLevel returns true.
C23_CheckAnyLevel ==
    /\ C23_TriesInOrder
    /\ []((last.op = "CheckAnyLevel" /\ last.ok /\ RefAdmitsNone(last.entry.LoggerName))
            => ~last.val)

\* A glob of characters and '*' read on its own: '*' stands for any sequence
\* of characters, the dot included, and the pattern covers the whole name.
RECURSIVE RefStarGlob(_, _)
RefStarGlob(pattern, name) ==
    IF pattern = Empty THEN name = Empty
    ELSE IF pattern[1] = "*"
    THEN \E k \in 0..Len(name) : RefStarGlob(Tail(pattern), SubSeq(name, k + 1, Len(name)))
    ELSE name # Empty /\ name[1] = pattern[1] /\ RefStarGlob(Tail(pattern), Tail(name))

RefStarMatches(spec, name) ==
    /\ \E i \in 1..Len(RefPatterns(spec)) :
         RefPatterns(spec)[i][1] # "-" /\ RefStarGlob(RefPatterns(spec)[i], name)
    /\ ~\E i \in 1..Len(RefPatterns(spec)) :
         RefPatterns(spec)[i][1] = "-" /\ RefStarGlob(Tail(RefPatterns(spec)[i]), name)

\* The verdicts the examples give.
RefExampleTrue ==
    {<<sDemoStar, sDemo>>, <<sDemoStar, sDemoChild>>, <<sDemo13, sDemo1Frontend>>,
     <<sDemo13, sDemo3Frontend>>}

RefExampleFalse ==
    {<<sDemoStar, sOther>>, <<sDemoStar, Empty>>, <<sDemo13, sDemo2Frontend>>,
     <<sFooDotStar, sFoo>>}

\* The names without a '/'.
RefSlashFree(name) == \A i \in 1..Len(name) : name[i] # "/"

\* On the names without a '/', a namespace pattern of characters and '*'
\* matches a logger name iff the whole name is the pattern with each '*'
\* replaced by some sequence of characters, dots included, and the examples
\* give the verdicts named.
C24_SlashFreeNames ==
    (pc = "parsed" /\ last.op = "filter") =>
        /\ last.ok
        /\ RefSlashFree(last.entry.LoggerName) =>
                last.val = RefStarMatches(input, last.entry.LoggerName)
        /\ <<input, last.entry.LoggerName>> \in RefExampleTrue => last.val
        /\ <<input, last.entry.LoggerName>> \in RefExampleFalse => ~last.val
        /\ \A n \in DOMAIN matchMap[1] :
                RefSlashFree(n) => matchMap[1][n] = RefStarMatches(input, n)

\* C24 (SpecGlob): a namespace pattern of characters and '*' matches a logger
\* name iff the whole name is the pattern with each '*' replaced by some
\* sequence of characters, dots included; the examples give the verdicts
\* named: "demo*" takes "demo" and "demo.child" but neither "other" nor "",
\* "demo1.*,demo3.*" takes "demo1.frontend" and "demo3.frontend" but not
\* "demo2.frontend", and "foo.*" does not take "foo".  The code breaks the
\* first part: the '*' of path.Match takes no '/', so "demo*" refuses
\* "demo/x", while the fast path of the bare "*" takes that name.
C24_GlobWholeName ==
    (pc = "parsed" /\ last.op = "filter") =>
        /\ last.ok
        /\ last.val = RefStarMatches(input, last.entry.LoggerName)
        /\ <<input, last.entry.LoggerName>> \in RefExampleTrue => last.val
        /\ <<input, last.entry.LoggerName>> \in RefExampleFalse => ~last.val
        /\ \A n \in DOMAIN matchMap[1] : matchMap[1][n] = RefStarMatches(input, n)

\* C25 (SpecMust): MustParseRules panics iff ParseRules returns an error, and
\* the panic's value is that error; when it returns, it returns the filter
\* ParseRules returns, which gives the same verdict on every entry.
C25_MustParseRules ==
    pc # "start" =>
        /\ (pc = "panicked") = (ParseRules(input).err # NoError)
        /\ pc = "panicked" => (err = ParseRules(input).err /\ filter = NilFilter)
        /\ pc = "parsed" => (filter = ParseRules(input).filter /\ err = NoError)
        /\ (pc = "parsed" /\ last = NoCall) =>
             \A e \in CallEntries :
                Verdict(filter, e, NoFields, matchMap)
                    = Verdict(ParseRules(input).filter, e, NoFields, matchMap)

\* MustParseRules panicked with the error of ParseRules on a rule string of
\* two rules, the first of which is a valid rule.
C25_Witness ==
    /\ pc = "panicked" /\ err # NoError /\ err = ParseRules(input).err
    /\ Len(Fields(input)) = 2 /\ ParseRules(Fields(input)[1]).err = NoError
\* A logging step: the first call of the filter is made without fields in
\* the state of the call, the second with the fields in the state the first
\* left, and the downstream receives the entry iff the call forwarded it.
C26_LogStep ==
    (last'.op = "Log" /\ core.built /\ <<last', sink', matchMap'>> # <<last, sink, matchMap>>) =>
        /\ evals'[1].verdict = Verdict(core.filter, last'.entry, NoFields, matchMap)
        /\ Len(evals') = 2 =>
             evals'[2].verdict = Verdict(core.filter, last'.entry, last'.fields,
                                         CoreCheck(core, last'.entry, matchMap).mm)
        /\ sink' = IF last'.val THEN Append(sink, last'.entry) ELSE sink

\* C26 (SpecLog): a logging call evaluates the filter once without fields, at
\* Check, and once more with the fields, at Write, iff the first evaluation
\* gave true; the entry reaches the downstream iff both gave true, so that a
\* filter rejecting at Check is evaluated exactly once and a filter answering
\* false at Write drops an entry Check admitted.
C26_CheckThenWrite ==
    /\ [](last.op = "Log" =>
            /\ Len(evals) \in {1, 2}
            /\ evals[1].fields = NoFields
            /\ (Len(evals) = 2) = (evals[1].verdict = "true")
            /\ Len(evals) = 2 => evals[2].fields = last.fields
            /\ last.val = (Len(evals) = 2 /\ evals[2].verdict = "true")
            /\ last.ok = (\A i \in 1..Len(evals) : evals[i].verdict # "panic"))
    /\ [][C26_LogStep]_vars

\* Check admitted an entry and Write, asking the filter again with the
\* fields, dropped it: the downstream received nothing.
C26_Witness ==
    /\ last.op = "Log" /\ last.ok /\ ~last.val
    /\ Len(evals) = 2 /\ evals[1].verdict = "true" /\ evals[2].verdict = "false"
    /\ sink = <<>>
\* A Write step of the outer core: the downstream receives the entry iff the
\* conjunction of the outer and the inner filter, in that order, admits it in
\* the state of the call; the outer filter is called first and the inner one
\* only when the outer admitted.
C27_ChainWriteStep ==
    (last'.op = "outer.Write" /\ outer.built
        /\ <<last', sink', matchMap'>> # <<last, sink, matchMap>>) =>
        /\ last'.val = (Verdict(All(<<outer.filter, core.filter>>), last'.entry, last'.fields,
                                matchMap) = "true")
        /\ sink' = IF last'.val THEN Append(sink, last'.entry) ELSE sink
        /\ evals'[1].verdict = Verdict(outer.filter, last'.entry, last'.fields, matchMap)
        /\ Len(evals') = 2 =>
             evals'[2].verdict
                = Verdict(core.filter, last'.entry, last'.fields,
                          Call(outer.filter, last'.entry, last'.fields, matchMap).mm)

\* C27 (SpecChain): Write on a core with filter g built on a core with filter
\* f forwards the entry to the sink iff g admits it and f admits it, the
\* conjunction of the two; Check on the outer core adds the core iff g admits
\* the entry without fields, and calls g only.
C27_ChainIsConjunction ==
    /\ [](/\ last.op = "outer.Write" =>
                /\ (Len(evals) = 2) = (evals[1].verdict = "true")
                /\ last.val = (Len(evals) = 2 /\ evals[2].verdict = "true")
          /\ last.op = "outer.Check" =>
                /\ last.val = (last.verdict = "true")
                /\ Len(evals) = 1 /\ evals[1].verdict = last.verdict)
    /\ [][C27_ChainWriteStep]_vars

\* The outer filter admitted an entry and the inner filter refused it: the
\* Write of the outer core forwarded nothing.
C27_Witness ==
    /\ last.op = "outer.Write" /\ last.ok /\ ~last.val
    /\ Len(evals) = 2 /\ evals[1].verdict = "true" /\ evals[2].verdict = "false"
    /\ outer.filter # core.filter /\ sink = <<>>
\* The lock discipline of the closures: the holder of a rule's mutex is in
\* that rule's closure, a goroutine in a closure holds that closure's mutex
\* and no other, and a goroutine outside every closure holds none.
C28_LockDiscipline ==
    /\ \A k \in DOMAIN locks :
         locks[k] # 0 => (calls[locks[k]].k = k /\ calls[locks[k]].pc \in {"locked", "unlock"})
    /\ \A t \in Threads :
         /\ Cardinality({k \in DOMAIN locks : locks[k] = t}) <= 1
         /\ calls[t].pc \in {"locked", "unlock"} => locks[calls[t].k] = t
         /\ calls[t].pc \notin {"locked", "unlock"} => (\A k \in DOMAIN locks : locks[k] # t)

\* The part of C28 that holds: the lock discipline, every goroutine waiting
\* for a mutex gets it, and every call of the filter ends, by a return or by
\* the panic.
C28_Ends ==
    /\ []C28_LockDiscipline
    /\ \A t \in Threads : (calls[t].pc = "wait") ~> (calls[t].pc = "locked")
    /\ \A t \in Threads : (calls[t].pc = "rule") ~> (calls[t].pc \in {"returned", "panicked"})

\* C28 (SpecLocks): a closure's mutex has one holder at most and is released
\* on every way out of the closure, no goroutine holds two of them, and under
\* a fair scheduler every goroutine waiting for a mutex gets it and every
\* call of a filter of several rules returns.  The code breaks the last
\* part: a call that reaches a closure with an empty pattern panics there
\* (C13), releases the mutex and never returns.
C28_NoDeadlock ==
    /\ []C28_LockDiscipline
    /\ \A t \in Threads : (calls[t].pc = "wait") ~> (calls[t].pc = "locked")
    /\ \A t \in Threads : (calls[t].pc = "rule") ~> (calls[t].pc = "returned")
\* The places of the rule tokens ParseRules refuses when given alone, and
\* the rule string of the tokens up to the first of them.
RefFaulty(toks) == {k \in 1..Len(toks) : ParseRules(toks[k]).err # NoError}

RefUpToFirstFaulty(toks) == Join(SubSeq(toks, 1, Min(RefFaulty(toks))), <<" ">>)

\* C29 (SpecFaulty): ParseRules fails iff some rule token is faulty; when it
\* fails it returns the nil filter, whatever valid tokens came first, and the
\* error it gives for the first faulty token alone, which is also all it
\* returns for the rule string cut after that token: the tokens after it
\* play no part.
C29_FirstErrorNoFilter ==
    pc # "start" =>
        /\ (pc = "failed") = (RefFaulty(Fields(input)) # {})
        /\ pc = "failed" =>
            /\ filter = NilFilter
            /\ err # NoError
            /\ err = ParseRules(Fields(input)[Min(RefFaulty(Fields(input)))]).err
            /\ ParseRules(RefUpToFirstFaulty(Fields(input))) = [filter |-> filter, err |-> err]
        /\ pc = "parsed" => err = NoError

\* ParseRules failed on a valid token followed by two faulty tokens of
\* different errors: it returned no filter and the error of the second token.
C29_Witness ==
    /\ pc = "failed" /\ filter = NilFilter /\ Len(Fields(input)) = 3
    /\ RefFaulty(Fields(input)) = {2, 3}
    /\ ParseRules(Fields(input)[2]).err # ParseRules(Fields(input)[3]).err
    /\ err = ParseRules(Fields(input)[2]).err
====
